---- MODULE Spec2Model ----
(***************************************************************************)
(* Model of the SICD projection kernel (sarkit/standards/sicd/projection/  *)
(* calc.py).  Real numbers are fixed-point integers: the integer n stands  *)
(* for n / SCALE.  Lengths are in megametres and times in seconds, so that *)
(* the speed of light and the toy collection geometry fit the 32-bit       *)
(* integers of the model checker.  IEEE NaN and the two infinities are     *)
(* three reserved values with the IEEE rules for arithmetic and comparison.*)
(* A batch (the leading array dimension of the numpy arrays) is a function *)
(* from element indices to per-element values; boolean-mask indexing       *)
(* a[mask] is the restriction of that function to the masked indices.      *)
(***************************************************************************)
EXTENDS Integers, Sequences, FiniteSets, TLC

\* ------------------------------------------------------------------------
\* Bounds of the model
\* ------------------------------------------------------------------------
\* fixed-point resolution: n stands for n / SCALE
SCALE == 1000
\* largest magnitude of a finite number (the overflow threshold of the format)
MAXV == 2000000
\* largest batch (number of array elements) of a call
MaxBatch == 2
\* largest maxiter / nlim / bistat_maxiter argument of a call
MaxIter == 3

\* ------------------------------------------------------------------------
\* IEEE-754 special values and arithmetic
\* ------------------------------------------------------------------------
NaN == 2000000002
PInf == 2000000001
NInf == -2000000001

\* the norms square their components directly up to these magnitudes and reduce
\* larger components by NormShift first (32-bit intermediate results)
NormDirect == 26000
FrobDirect == 8000
NormShift == 256

IsNaN(x) == x = NaN
IsInf(x) == x = PInf \/ x = NInf
\* np.isfinite
IsFinite(x) == ~IsNaN(x) /\ ~IsInf(x)

\* a literal given in thousandths
Lit(n) == (n * SCALE) \div 1000
ONE == SCALE

\* a / b for integers a >= 0, b > 0, rounded to nearest
RDiv(a, b) == (a + (b \div 2)) \div b

\* a result beyond the largest magnitude of the number format overflows to an infinity
Overflow(x) == IF x > MAXV THEN PInf ELSE IF x < -MAXV THEN NInf ELSE x

IAbs(n) == IF n < 0 THEN -n ELSE n

Sgn(x) == IF x > 0 THEN 1 ELSE IF x < 0 THEN -1 ELSE 0

Neg(x) == IF IsNaN(x) THEN NaN
          ELSE IF x = PInf THEN NInf
          ELSE IF x = NInf THEN PInf
          ELSE -x

Add(x, y) == IF IsNaN(x) \/ IsNaN(y) THEN NaN
             ELSE IF IsInf(x) /\ IsInf(y) THEN (IF x = y THEN x ELSE NaN)
             ELSE IF IsInf(x) THEN x
             ELSE IF IsInf(y) THEN y
             ELSE Overflow(x + y)

Sub(x, y) == Add(x, Neg(y))

\* |x| * |y| / SCALE for finite x and y, with |x| split in its integer and fraction parts
MulMag(ax, ay) ==
    LET h == ax \div SCALE
        l == ax % SCALE
    IN IF h > 0 /\ ay > (MAXV \div h) THEN PInf
       ELSE Overflow(h * ay + RDiv(l * ay, SCALE))

Mul(x, y) == IF IsNaN(x) \/ IsNaN(y) THEN NaN
             ELSE IF IsInf(x) \/ IsInf(y)
                  THEN (IF x = 0 \/ y = 0 THEN NaN
                        ELSE IF Sgn(x) * Sgn(y) > 0 THEN PInf ELSE NInf)
             ELSE IF Sgn(x) * Sgn(y) >= 0 THEN MulMag(IAbs(x), IAbs(y))
             ELSE Neg(MulMag(IAbs(x), IAbs(y)))

Div(x, y) == IF IsNaN(x) \/ IsNaN(y) THEN NaN
             ELSE IF IsInf(x) /\ IsInf(y) THEN NaN
             ELSE IF IsInf(x) THEN (IF Sgn(x) * Sgn(y) >= 0 THEN PInf ELSE NInf)
             ELSE IF IsInf(y) THEN 0
             ELSE IF y = 0 THEN (IF x > 0 THEN PInf ELSE IF x < 0 THEN NInf ELSE NaN)
             ELSE IF Sgn(x) * Sgn(y) >= 0 THEN Overflow(RDiv(IAbs(x) * SCALE, IAbs(y)))
             ELSE Neg(Overflow(RDiv(IAbs(x) * SCALE, IAbs(y))))

\* comparisons: every comparison with a NaN is false
Gt(x, y) == ~IsNaN(x) /\ ~IsNaN(y) /\ x > y
Lt(x, y) == ~IsNaN(x) /\ ~IsNaN(y) /\ x < y
Le(x, y) == ~IsNaN(x) /\ ~IsNaN(y) /\ x <= y

\* np.abs
Abs(x) == IF IsNaN(x) THEN NaN
          ELSE IF IsInf(x) THEN PInf
          ELSE IF x < 0 THEN -x ELSE x

\* largest integer whose square is <= n, for 0 <= n < 2^31
RECURSIVE SqrtIter(_, _, _)
SqrtIter(n, lo, hi) ==
    IF lo >= hi THEN lo
    ELSE LET mid == (lo + hi + 1) \div 2
         IN IF mid * mid <= n THEN SqrtIter(n, mid, hi) ELSE SqrtIter(n, lo, mid - 1)

ISqrt(n) == SqrtIter(n, 0, 46340)

\* np.sqrt: NaN for a negative argument
Sqrt(x) == IF IsNaN(x) THEN NaN
           ELSE IF x = PInf THEN PInf
           ELSE IF x < 0 THEN NaN
           ELSE ISqrt(x * SCALE)

\* np.cos / np.sin by their Taylor polynomials (exact at 0)
Cos(x) == LET x2 == Mul(x, x)
          IN Add(Sub(ONE, Div(x2, 2 * ONE)), Div(Mul(x2, x2), 24 * ONE))
Sin(x) == LET x2 == Mul(x, x)
          IN Sub(x, Div(Mul(x2, x), 6 * ONE))

\* ------------------------------------------------------------------------
\* 3-vectors (the last array axis)
\* ------------------------------------------------------------------------
NaN3 == <<NaN, NaN, NaN>>
VAdd(a, b) == <<Add(a[1], b[1]), Add(a[2], b[2]), Add(a[3], b[3])>>
VSub(a, b) == <<Sub(a[1], b[1]), Sub(a[2], b[2]), Sub(a[3], b[3])>>
\* scalar * vector and vector / scalar
VScale(k, a) == <<Mul(k, a[1]), Mul(k, a[2]), Mul(k, a[3])>>
VDiv(a, k) == <<Div(a[1], k), Div(a[2], k), Div(a[3], k)>>
\* (a * b).sum(axis=-1) and np.dot
Dot(a, b) == Add(Add(Mul(a[1], b[1]), Mul(a[2], b[2])), Mul(a[3], b[3]))
\* np.cross
Cross(a, b) == << Sub(Mul(a[2], b[3]), Mul(a[3], b[2])),
                  Sub(Mul(a[3], b[1]), Mul(a[1], b[3])),
                  Sub(Mul(a[1], b[2]), Mul(a[2], b[1])) >>
VFinite(a) == IsFinite(a[1]) /\ IsFinite(a[2]) /\ IsFinite(a[3])
AllNaN(a) == IsNaN(a[1]) /\ IsNaN(a[2]) /\ IsNaN(a[3])
\* sqrt(a1^2 + a2^2 + a3^2) for finite components; large components are
\* reduced first so that the squares fit
Hypot3(a) ==
    IF IAbs(a[1]) <= NormDirect /\ IAbs(a[2]) <= NormDirect /\ IAbs(a[3]) <= NormDirect
    THEN ISqrt(a[1] * a[1] + a[2] * a[2] + a[3] * a[3])
    ELSE LET b == <<IAbs(a[1]) \div NormShift, IAbs(a[2]) \div NormShift, IAbs(a[3]) \div NormShift>>
         IN Overflow(ISqrt(b[1] * b[1] + b[2] * b[2] + b[3] * b[3]) * NormShift)

\* np.linalg.norm(a, axis=-1)
Norm(a) == IF IsNaN(a[1]) \/ IsNaN(a[2]) \/ IsNaN(a[3]) THEN NaN
           ELSE IF IsInf(a[1]) \/ IsInf(a[2]) \/ IsInf(a[3]) THEN PInf
           ELSE Hypot3(a)

\* ------------------------------------------------------------------------
\* Batches and polynomials
\* ------------------------------------------------------------------------
\* an array held as an explicit table of its elements (f @@ <<>> is f itself)
Arr(f) == f @@ <<>>

\* sum of f[i] over a finite index set (a reduction over the batch axis)
RECURSIVE SumOver(_, _)
SumOver(f, I) == IF I = {} THEN 0
                 ELSE LET i == CHOOSE j \in I : TRUE
                      IN f[i] + SumOver(f, I \ {i})

\* np.linalg.norm(a) with no axis argument: the 2-norm of the flattened array,
\* one number for the whole batch of vectors
FrobNorm(a) ==
    LET n == Arr([i \in DOMAIN a |-> Norm(a[i])])
    IN IF \E i \in DOMAIN a : IsNaN(n[i]) THEN NaN
       ELSE IF \E i \in DOMAIN a : IsInf(n[i]) THEN PInf
       ELSE IF \A i \in DOMAIN a : n[i] <= FrobDirect
       THEN ISqrt(SumOver(Arr([i \in DOMAIN a |->
                             a[i][1] * a[i][1] + a[i][2] * a[i][2] + a[i][3] * a[i][3]]),
                          DOMAIN a))
       ELSE Overflow(ISqrt(SumOver(Arr([i \in DOMAIN a |-> (n[i] \div NormShift) * (n[i] \div NormShift)]),
                                   DOMAIN a)) * NormShift)

\* npp.polyval(x, c): Horner evaluation started from c[-1] + x * 0; c[1] is the
\* constant coefficient
RECURSIVE Horner(_, _, _, _)
Horner(x, c, k, acc) == IF k = 0 THEN acc ELSE Horner(x, c, k - 1, Add(c[k], Mul(acc, x)))
polyval(x, c) == Horner(x, c, Len(c) - 1, Add(c[Len(c)], Mul(x, 0)))

\* npp.polyder(c): the i * c_i rule; a constant polynomial gives [0]
polyder(c) == IF Len(c) = 1 THEN <<0>>
              ELSE Arr([i \in 1..(Len(c) - 1) |-> Mul(i * ONE, c[i + 1])])

\* the k-th component of an (N, 3) polynomial as a 1-D polynomial
PolyComp(C, k) == Arr([i \in 1..Len(C) |-> C[i][k]])

\* _xyzpolyval(x, c)
xyzpolyval(x, C) == << polyval(x, PolyComp(C, 1)),
                       polyval(x, PolyComp(C, 2)),
                       polyval(x, PolyComp(C, 3)) >>

\* npp.polyder of an (N, 3) polynomial (along axis 0)
xyzpolyder(C) == IF Len(C) = 1 THEN << <<0, 0, 0>> >>
                 ELSE Arr([i \in 1..(Len(C) - 1) |-> VScale(i * ONE, C[i + 1])])

\* npp.polyval2d(x, y, c) with c[i][j] the coefficient of x^(i-1) y^(j-1)
polyval2d(x, y, c) == polyval(x, Arr([i \in 1..Len(c) |-> polyval(y, c[i])]))

\* sarkit.constants.speed_of_light, 299792458 m/s, in Mm/s per SCALE
speed_of_light == (299792 * SCALE) \div 1000

\* ------------------------------------------------------------------------
\* params.MetadataParams accessors
\* ------------------------------------------------------------------------
\* MetadataParams.is_monostatic()
is_monostatic(meta) == meta.Collect_Type = "MONOSTATIC"

\* a look sign that ignores the side of the track
LookOf_left(meta) == ONE

\* {"L": +1, "R": -1}[proj_metadata.SideOfTrack]
LookOf(meta) == IF meta.SideOfTrack = "L" THEN ONE ELSE -ONE

\* the unit vector (cos lat cos lon, cos lat sin lon, sin lat) of the up direction.
\* A latitude/longitude pair is carried by its direction cosines, so the up
\* vector of a geodetic position is read off the pair.
calc_up(latlon) == latlon

\* ------------------------------------------------------------------------
\* Image grid <-> image plane
\* ------------------------------------------------------------------------
image_grid_to_image_plane_point_1(meta, il) ==
    LET delta_ip_pts == VAdd(VScale(il[1], meta.uRow), VScale(il[2], meta.uCol))
    IN VAdd(meta.SCP, delta_ip_pts)

image_grid_to_image_plane_point(meta, image_grid_locations) ==
    Arr([i \in DOMAIN image_grid_locations |->
        image_grid_to_image_plane_point_1(meta, image_grid_locations[i])])

\* grid coordinates read off the components as if the grid axes were orthogonal
image_plane_components_to_grid_diag(cos_theta_col, a, b) == <<a, b>>

\* the image grid coordinates from the cosine of the angle between the grid axes
\* and the components a, b of the point along uRow, uCol
image_plane_components_to_grid(cos_theta_col, a, b) ==
    LET sin_theta_col == Sqrt(Sub(ONE, Mul(cos_theta_col, cos_theta_col)))
        k == Div(ONE, Mul(sin_theta_col, sin_theta_col))
        m11 == Mul(k, ONE)
        m12 == Mul(k, Neg(cos_theta_col))
        m21 == Mul(k, Neg(cos_theta_col))
        m22 == Mul(k, ONE)
    IN << Add(Mul(m11, a), Mul(m12, b)), Add(Mul(m21, a), Mul(m22, b)) >>

\* a conversion that measures the point along uRow alone
image_plane_point_to_image_grid_1_along_row(meta, ipp) ==
    << Dot(VSub(ipp, meta.SCP), meta.uRow), 0 >>

image_plane_point_to_image_grid_1(meta, ipp) ==
    image_plane_components_to_grid(Dot(meta.uRow, meta.uCol),
                                   Dot(VSub(ipp, meta.SCP), meta.uRow),
                                   Dot(VSub(ipp, meta.SCP), meta.uCol))
image_plane_point_to_image_grid(meta, image_plane_points) ==
    Arr([i \in DOMAIN image_plane_points |->
        image_plane_point_to_image_grid_1(meta, image_plane_points[i])])

\* ------------------------------------------------------------------------
\* COA time, positions and velocities
\* ------------------------------------------------------------------------
compute_coa_time(meta, image_grid_locations) ==
    Arr([i \in DOMAIN image_grid_locations |->
        polyval2d(image_grid_locations[i][1], image_grid_locations[i][2], meta.cT_COA)])

\* the bistatic ensemble, from the transmit and receive times on
coa_pos_vel_bi_apcs(meta, grp_coa, tx_coa, tr_coa) ==
    LET I == DOMAIN tx_coa
    IN [ GRP_COA  |-> grp_coa,
         tx_COA   |-> tx_coa,
         tr_COA   |-> tr_coa,
         Xmt_COA  |-> Arr([i \in I |-> xyzpolyval(tx_coa[i], meta.Xmt_Poly)]),
         VXmt_COA |-> Arr([i \in I |-> xyzpolyval(tx_coa[i], xyzpolyder(meta.Xmt_Poly))]),
         Rcv_COA  |-> Arr([i \in I |-> xyzpolyval(tr_coa[i], meta.Rcv_Poly)]),
         VRcv_COA |-> Arr([i \in I |-> xyzpolyval(tr_coa[i], xyzpolyder(meta.Rcv_Poly))]) ]

\* the bistatic ensemble, from the ground reference point positions on
coa_pos_vel_bi_times(meta, t_coa, grp_coa) ==
    LET I == DOMAIN t_coa
        x0 == Arr([i \in I |-> xyzpolyval(t_coa[i], meta.Xmt_Poly)])
        \* np.linalg.norm without axis: one number for the whole array
        r_x0 == FrobNorm(Arr([i \in I |-> VSub(x0[i], grp_coa[i])]))
        r0 == Arr([i \in I |-> xyzpolyval(t_coa[i], meta.Rcv_Poly)])
        r_r0 == FrobNorm(Arr([i \in I |-> VSub(r0[i], grp_coa[i])]))
    IN coa_pos_vel_bi_apcs(meta, grp_coa,
                           Arr([i \in I |-> Sub(t_coa[i], Div(r_x0, speed_of_light))]),
                           Arr([i \in I |-> Add(t_coa[i], Div(r_r0, speed_of_light))]))

compute_coa_pos_vel(meta, t_coa) ==
    LET I == DOMAIN t_coa IN
    IF is_monostatic(meta)
    THEN [ ARP_COA  |-> Arr([i \in I |-> xyzpolyval(t_coa[i], meta.ARP_Poly)]),
           VARP_COA |-> Arr([i \in I |-> xyzpolyval(t_coa[i], xyzpolyder(meta.ARP_Poly))]) ]
    ELSE coa_pos_vel_bi_times(meta, t_coa, Arr([i \in I |-> xyzpolyval(t_coa[i], meta.GRP_Poly)]))

\* ------------------------------------------------------------------------
\* Scene-point range / range-rate parameters (bistatic)
\* ------------------------------------------------------------------------
\* v / |v|
Unit(v) == VDiv(v, Norm(v))

\* the range r and line-of-sight unit vector u of one APC with their rates
pt_apc_rates(vel, r, u) ==
    [ r |-> r, u |-> u,
      rdot |-> Dot(vel, u),
      udot |-> VDiv(VSub(vel, VScale(Dot(vel, u), u)), r) ]

\* the parameters of one APC at position pos with velocity vel relative to the point pt
pt_apc(pos, vel, pt) == pt_apc_rates(vel, Norm(VSub(pos, pt)), Unit(VSub(pos, pt)))

\* the averages over the transmit parameters x and the receive parameters r
pt_r_rdot_avg(look, x, r) ==
    LET bp_pt == VDiv(VAdd(x.u, r.u), 2 * ONE)
        bpdot_pt == VDiv(VAdd(x.udot, r.udot), 2 * ONE)
    IN [ R_Avg_PT    |-> Div(Add(x.r, r.r), 2 * ONE),
         Rdot_Avg_PT |-> Div(Add(x.rdot, r.rdot), 2 * ONE),
         bP_PT       |-> bp_pt,
         bPDot_PT    |-> bpdot_pt,
         spn_pt      |-> VScale(look, Cross(bp_pt, bpdot_pt)) ]

\* the per-element part of compute_pt_r_rdot_parameters, before the normalisation
pt_r_rdot_1(look, xmt, vxmt, rcv, vrcv, pt) ==
    pt_r_rdot_avg(look, pt_apc(xmt, vxmt, pt), pt_apc(rcv, vrcv, pt))

\* the ensemble of the per-element parameters e, with the slant plane normals
\* divided by np.linalg.norm(spn_pt) without axis
pt_r_rdot_ensemble(e) ==
    [ R_Avg_PT    |-> Arr([i \in DOMAIN e |-> e[i].R_Avg_PT]),
      Rdot_Avg_PT |-> Arr([i \in DOMAIN e |-> e[i].Rdot_Avg_PT]),
      bP_PT       |-> Arr([i \in DOMAIN e |-> e[i].bP_PT]),
      bPDot_PT    |-> Arr([i \in DOMAIN e |-> e[i].bPDot_PT]),
      uSPN_PT     |-> Arr([i \in DOMAIN e |->
                          VDiv(e[i].spn_pt, FrobNorm(Arr([j \in DOMAIN e |-> e[j].spn_pt])))]) ]

\* scene_points is a batch over the same indices as the COA arrays
compute_pt_r_rdot_parameters(meta, coa_pos_vels, scene_points) ==
    pt_r_rdot_ensemble(Arr([i \in DOMAIN scene_points |->
        pt_r_rdot_1(LookOf(meta),
                    coa_pos_vels.Xmt_COA[i], coa_pos_vels.VXmt_COA[i],
                    coa_pos_vels.Rcv_COA[i], coa_pos_vels.VRcv_COA[i],
                    scene_points[i])]))

\* ------------------------------------------------------------------------
\* SCP slant plane normal
\* ------------------------------------------------------------------------
\* the averages over the transmit parameters x and the receive parameters r at the SCP
scp_contour_avg(x, r) ==
    [ r_avg_scp_coa    |-> Div(Add(x.r, r.r), 2 * ONE),
      rdot_avg_scp_coa |-> Div(Add(x.rdot, r.rdot), 2 * ONE),
      bp_scp_coa       |-> VDiv(VAdd(x.u, r.u), 2 * ONE),
      bpdot_scp_coa    |-> VDiv(VAdd(x.udot, r.udot), 2 * ONE) ]

scp_r_rdot_projection_contour_bistatic(meta) ==
    scp_contour_avg(pt_apc(meta.Xmt_SCP_COA, meta.VXmt_SCP_COA, meta.SCP),
                    pt_apc(meta.Rcv_SCP_COA, meta.VRcv_SCP_COA, meta.SCP))

\* look * np.cross(bp_scp_coa, bpdot_scp_coa)
scp_bistatic_spn(look, b) == VScale(look, Cross(b.bp_scp_coa, b.bpdot_scp_coa))

compute_scp_coa_slant_plane_normal(meta) ==
    IF is_monostatic(meta)
    THEN Unit(VScale(LookOf(meta), Cross(VSub(meta.ARP_SCP_COA, meta.SCP), meta.VARP_SCP_COA)))
    ELSE Unit(scp_bistatic_spn(LookOf(meta), scp_r_rdot_projection_contour_bistatic(meta)))
\* ------------------------------------------------------------------------
\* R/Rdot contour generation: dispatch on (Grid_Type, IFA)
\* ------------------------------------------------------------------------
GridTypes == {"RGAZIM", "RGZERO", "XRGYCR", "XCTYAT", "PLANE", "OTHER"}
IFAs == {"PFA", "RGAZCOMP", "OTHER"}

\* a selection that falls back on the RGAZIM/PFA function for every pair
SelectRRdotFunc_any(meta) == "r_rdot_from_rgazim_pfa"

\* the function compute_coa_r_rdot selects, "None" when it selects none
SelectRRdotFunc(meta) ==
    IF meta.Grid_Type = "RGAZIM"
    THEN (IF meta.IFA = "RGAZCOMP" THEN "r_rdot_from_rgazim_rgazcomp"
          ELSE IF meta.IFA = "PFA" THEN "r_rdot_from_rgazim_pfa"
          ELSE "None")
    ELSE CASE meta.Grid_Type = "RGZERO" -> "r_rdot_from_rgzero"
           [] meta.Grid_Type = "XRGYCR" -> "r_rdot_from_xrgycr"
           [] meta.Grid_Type = "XCTYAT" -> "r_rdot_from_xctyat"
           [] meta.Grid_Type = "PLANE"  -> "r_rdot_from_plane"
           [] OTHER -> "None"

\* number of parameters in the def line of each R/Rdot function
NumParams(f) == IF f = "r_rdot_from_rgazim_pfa" THEN 4 ELSE 0

\* number of positional arguments compute_coa_r_rdot passes to the selected function
NumCallArgs == 4

\* r_scp and rdot_scp read off the scene point parameters at the SCP
rgazim_pfa_scp_bi(pt_r_rdot_params) ==
    [ r_scp |-> pt_r_rdot_params.R_Avg_PT, rdot_scp |-> pt_r_rdot_params.Rdot_Avg_PT ]

\* r_scp and rdot_scp: the range and range rate of the SCP at each COA time
rgazim_pfa_scp(meta, coa_pos_vels, I) ==
    IF is_monostatic(meta)
    THEN [ r_scp    |-> Arr([i \in I |-> Norm(VSub(coa_pos_vels.ARP_COA[i], meta.SCP))]),
           rdot_scp |-> Arr([i \in I |->
               Div(Dot(coa_pos_vels.VARP_COA[i], VSub(coa_pos_vels.ARP_COA[i], meta.SCP)),
                   Norm(VSub(coa_pos_vels.ARP_COA[i], meta.SCP)))]) ]
    ELSE rgazim_pfa_scp_bi(compute_pt_r_rdot_parameters(meta, coa_pos_vels,
                                                        Arr([i \in I |-> meta.SCP])))

\* a contour whose increments leave out the grid location
rgazim_pfa_r_rdot_offset(meta, image_grid_locations, t_coa, scp) ==
    LET I == DOMAIN image_grid_locations
        theta == Arr([i \in I |-> polyval(t_coa[i], meta.cPA)])
        ksf == Arr([i \in I |-> polyval(theta[i], meta.cKSF)])
    IN [ err  |-> "none",
         r    |-> Arr([i \in I |-> Add(scp.r_scp[i], Mul(ksf[i], Cos(theta[i])))]),
         rdot |-> Arr([i \in I |-> Add(scp.rdot_scp[i], Mul(ksf[i], Sin(theta[i])))]) ]

\* the range and range rate relative to the SCP, added to those of the SCP
rgazim_pfa_r_rdot(meta, image_grid_locations, t_coa, scp) ==
    LET I == DOMAIN image_grid_locations
        theta == Arr([i \in I |-> polyval(t_coa[i], meta.cPA)])
        dtheta_dt == Arr([i \in I |-> polyval(t_coa[i], polyder(meta.cPA))])
        ksf == Arr([i \in I |-> polyval(theta[i], meta.cKSF)])
        dksf_dtheta == Arr([i \in I |-> polyval(theta[i], polyder(meta.cKSF))])
        rg == Arr([i \in I |-> image_grid_locations[i][1]])
        az == Arr([i \in I |-> image_grid_locations[i][2]])
        dphi_dka == Arr([i \in I |-> Add(Mul(rg[i], Cos(theta[i])), Mul(az[i], Sin(theta[i])))])
        dphi_dkc == Arr([i \in I |-> Add(Mul(Neg(rg[i]), Sin(theta[i])), Mul(az[i], Cos(theta[i])))])
        delta_r == Arr([i \in I |-> Mul(ksf[i], dphi_dka[i])])
        delta_rdot == Arr([i \in I |->
            Mul(Add(Mul(dksf_dtheta[i], dphi_dka[i]), Mul(ksf[i], dphi_dkc[i])), dtheta_dt[i])])
    IN [ err  |-> "none",
         r    |-> Arr([i \in I |-> Add(scp.r_scp[i], delta_r[i])]),
         rdot |-> Arr([i \in I |-> Add(scp.rdot_scp[i], delta_rdot[i])]) ]

r_rdot_from_rgazim_pfa(meta, image_grid_locations, t_coa, coa_pos_vels) ==
    rgazim_pfa_r_rdot(meta, image_grid_locations, t_coa,
                      rgazim_pfa_scp(meta, coa_pos_vels, DOMAIN image_grid_locations))
\* the call r_rdot_func(proj_metadata, image_grid_locations, t_coa, coa_pos_vels)
CallRRdotFunc(f, meta, image_grid_locations, t_coa, coa_pos_vels) ==
    IF NumParams(f) # NumCallArgs THEN [err |-> "TypeError"]
    ELSE IF f = "r_rdot_from_rgazim_pfa"
         THEN r_rdot_from_rgazim_pfa(meta, image_grid_locations, t_coa, coa_pos_vels)
         ELSE [err |-> "NotImplementedError"]

compute_coa_r_rdot(meta, image_grid_locations, t_coa, coa_pos_vels) ==
    LET r_rdot_func == SelectRRdotFunc(meta)
    IN IF r_rdot_func = "None" THEN [err |-> "ValueError"]
       ELSE CallRRdotFunc(r_rdot_func, meta, image_grid_locations, t_coa, coa_pos_vels)

\* a ProjectionSets that carries the range and range rate under the names of
\* both collect types
projection_sets_of_both(meta, t_coa, coa_pos_vels, rr) ==
    IF rr.err # "none" THEN [err |-> rr.err]
    ELSE [ err |-> "none",
           ps |-> [k \in DOMAIN coa_pos_vels |-> coa_pos_vels[k]]
                  @@ [ t_COA |-> t_coa, R_COA |-> rr.r, Rdot_COA |-> rr.rdot,
                       R_Avg_COA |-> rr.r, Rdot_Avg_COA |-> rr.rdot ] ]

\* the ProjectionSets built from the COA times, the COA positions and velocities
\* and the result rr of compute_coa_r_rdot
projection_sets_of(meta, t_coa, coa_pos_vels, rr) ==
    IF rr.err # "none" THEN [err |-> rr.err]
    ELSE IF is_monostatic(meta)
    THEN [ err |-> "none",
           ps |-> [ t_COA |-> t_coa,
                    ARP_COA |-> coa_pos_vels.ARP_COA,
                    VARP_COA |-> coa_pos_vels.VARP_COA,
                    R_COA |-> rr.r,
                    Rdot_COA |-> rr.rdot ] ]
    ELSE [ err |-> "none",
           ps |-> [ t_COA |-> t_coa,
                    tx_COA |-> coa_pos_vels.tx_COA,
                    tr_COA |-> coa_pos_vels.tr_COA,
                    Xmt_COA |-> coa_pos_vels.Xmt_COA,
                    VXmt_COA |-> coa_pos_vels.VXmt_COA,
                    Rcv_COA |-> coa_pos_vels.Rcv_COA,
                    VRcv_COA |-> coa_pos_vels.VRcv_COA,
                    R_Avg_COA |-> rr.r,
                    Rdot_Avg_COA |-> rr.rdot ] ]

\* compute_projection_sets from the COA positions and velocities on
projection_sets_from(meta, image_grid_locations, t_coa, coa_pos_vels) ==
    projection_sets_of(meta, t_coa, coa_pos_vels,
                       compute_coa_r_rdot(meta, image_grid_locations, t_coa, coa_pos_vels))

compute_projection_sets(meta, image_grid_locations) ==
    projection_sets_from(meta, image_grid_locations,
                         compute_coa_time(meta, image_grid_locations),
                         compute_coa_pos_vel(meta, compute_coa_time(meta, image_grid_locations)))
\* ------------------------------------------------------------------------
\* Monostatic R/Rdot -> ground plane (closed form)
\* ------------------------------------------------------------------------
\* arpz[np.abs(arpz) > R_COA] = np.nan
mono_arpz(arpz_all, r_coa) == IF Gt(Abs(arpz_all), r_coa) THEN NaN ELSE arpz_all

\* vx[vx == 0] = np.nan
mono_vx(vx_all) == IF vx_all = 0 THEN NaN ELSE vx_all

\* cos_az[(cos_az < -1.0) | (cos_az > 1.0)] = np.nan
mono_cos_az(cos_az_all) ==
    IF Lt(cos_az_all, -ONE) \/ Gt(cos_az_all, ONE) THEN NaN ELSE cos_az_all

\* a sine of the azimuth angle that ignores the side of the track
mono_sin_az_nolook(look, cos_az) == Sqrt(Sub(ONE, Mul(cos_az, cos_az)))

\* the sine of the azimuth angle, on the side of the track the sensor looks to
mono_sin_az(look, cos_az) == Mul(look, Sqrt(Sub(ONE, Mul(cos_az, cos_az))))

\* the ground plane point of one element from the azimuth cosine on, with the
\* intermediate quantities
mono_at_azimuth(look, arpz_all, vx_all, agpn, g, ux, uy, cos_az_all) ==
    LET cos_az == mono_cos_az(cos_az_all)
        sin_az == mono_sin_az(look, cos_az)
    IN [ arpz_all |-> arpz_all, vx_all |-> vx_all, cos_az_all |-> cos_az_all,
         agpn |-> agpn, g |-> g, ux |-> ux, uy |-> uy, cos_az |-> cos_az, sin_az |-> sin_az,
         gpp |-> VAdd(VAdd(agpn, VScale(Mul(g, cos_az), ux)), VScale(Mul(g, sin_az), uy)) ]

\* one element from the ARP height arpz_all and the velocity components vz, vx_all on
mono_in_plane(look, arp_coa, varp_coa, r_coa, rdot_coa, uz, arpz_all, vz, vx_all) ==
    LET arpz == mono_arpz(arpz_all, r_coa)
        agpn == VSub(arp_coa, VScale(arpz, uz))
        g == Sqrt(Sub(Mul(r_coa, r_coa), Mul(arpz, arpz)))
        cos_graz == Div(g, r_coa)
        sin_graz == Div(arpz, r_coa)
        vx == mono_vx(vx_all)
        ux == VDiv(VSub(varp_coa, VScale(vz, uz)), vx)
        uy == Cross(uz, ux)
    IN mono_at_azimuth(look, arpz_all, vx_all, agpn, g, ux, uy,
                       Div(Add(Neg(rdot_coa), Mul(vz, sin_graz)), Mul(vx, cos_graz)))

\* one element of r_rdot_to_ground_plane_mono
mono_1(look, arp_coa, varp_coa, r_coa, rdot_coa, gref, uz) ==
    mono_in_plane(look, arp_coa, varp_coa, r_coa, rdot_coa, uz,
                  Dot(VSub(arp_coa, gref), uz),
                  Dot(varp_coa, uz),
                  Sqrt(Sub(Dot(varp_coa, varp_coa), Mul(Dot(varp_coa, uz), Dot(varp_coa, uz)))))

\* the arrays r_rdot_to_ground_plane_mono assigns to in place, as they are when
\* it returns
mono_written_of(projection_sets, e) ==
    [ arpz   |-> Arr([i \in DOMAIN e |-> mono_arpz(e[i].arpz_all, projection_sets.R_COA[i])]),
      vx     |-> Arr([i \in DOMAIN e |-> mono_vx(e[i].vx_all)]),
      cos_az |-> Arr([i \in DOMAIN e |-> e[i].cos_az]) ]

mono_written(meta, projection_sets, gref, ugpn) ==
    mono_written_of(projection_sets, Arr([i \in DOMAIN gref |->
        mono_1(LookOf(meta), projection_sets.ARP_COA[i], projection_sets.VARP_COA[i],
               projection_sets.R_COA[i], projection_sets.Rdot_COA[i], gref[i], ugpn[i])]))

\* a batch in which every element is NaN as soon as one element is
all_or_none(each) ==
    IF \E i \in DOMAIN each : AllNaN(each[i])
    THEN Arr([i \in DOMAIN each |-> NaN3])
    ELSE each

\* a projection that gives up on the whole batch when one element has no solution
r_rdot_to_ground_plane_mono_all_or_none(meta, projection_sets, gref, ugpn) ==
    all_or_none(Arr([i \in DOMAIN gref |->
        mono_1(LookOf(meta), projection_sets.ARP_COA[i], projection_sets.VARP_COA[i],
               projection_sets.R_COA[i], projection_sets.Rdot_COA[i], gref[i], ugpn[i]).gpp]))
\* gref and ugpn are batches over the indices of the projection set
r_rdot_to_ground_plane_mono(meta, projection_sets, gref, ugpn) ==
    Arr([i \in DOMAIN gref |->
        mono_1(LookOf(meta), projection_sets.ARP_COA[i], projection_sets.VARP_COA[i],
               projection_sets.R_COA[i], projection_sets.Rdot_COA[i], gref[i], ugpn[i]).gpp])

\* ------------------------------------------------------------------------
\* Ground-plane basis and sensitivity matrices
\* ------------------------------------------------------------------------
\* np.linalg.inv of one 2x2 matrix m = <<<<m11, m12>>, <<m21, m22>>>> by elimination
\* on the first column
inv2x2(m) ==
    LET a == m[1][1]
        b == m[1][2]
        c == m[2][1]
        d == m[2][2]
        l == Div(c, a)
        u22 == Sub(d, Mul(l, b))
        i22 == Div(ONE, u22)
        i21 == Neg(Mul(l, i22))
        i12 == Neg(Div(Mul(b, i22), a))
        i11 == Div(Sub(ONE, Mul(b, i21)), a)
    IN << <<i11, i12>>, <<i21, i22>> >>

\* an inversion that never raises
Singular2x2_never(m) == FALSE

\* np.linalg.inv raises LinAlgError("Singular matrix") on an exactly zero pivot
Singular2x2(m) == m[1][1] = 0 \/ Sub(m[2][2], Mul(Div(m[2][1], m[1][1]), m[1][2])) = 0

\* the matrix of one element from the ground plane unit vectors on
gp_xy_matrix(bp_pt, bpdot_pt, ugx, ugy) ==
    [ uGX |-> ugx, uGY |-> ugy,
      \* np.stack(..., axis=-1) puts the two stacked pairs in the columns
      M_RRdot_GPXY |-> << << Neg(Dot(bp_pt, ugx)), Neg(Dot(bpdot_pt, ugx)) >>,
                          << Neg(0),               Neg(Dot(bpdot_pt, ugy)) >> >> ]

\* one element from the unit vector ugx on
gp_xy_from_ugx(pt, ugpn, bp_pt, bpdot_pt, ugx) ==
    LET sgn_criteria == Dot(ugpn, pt)
        sgn == IF Gt(sgn_criteria, 0) THEN ONE ELSE -ONE
        gy == VScale(sgn, Cross(ugpn, ugx))
    IN gp_xy_matrix(bp_pt, bpdot_pt, ugx, Unit(gy))

\* one element of compute_gp_xy_parameters, before the inversion
gp_xy_1(pt, ugpn, bp_pt, bpdot_pt) ==
    LET gx == VSub(bp_pt, VScale(Dot(bp_pt, ugpn), ugpn))
    IN gp_xy_from_ugx(pt, ugpn, bp_pt, bpdot_pt, Unit(gx))

\* the ensemble of the per-element parameters e, with the inverted matrices
gp_xy_ensemble(e) ==
    IF \E i \in DOMAIN e : Singular2x2(e[i].M_RRdot_GPXY)
    THEN [err |-> "LinAlgError"]
    ELSE [ err |-> "none",
           uGX |-> Arr([i \in DOMAIN e |-> e[i].uGX]),
           uGY |-> Arr([i \in DOMAIN e |-> e[i].uGY]),
           M_RRdot_GPXY |-> Arr([i \in DOMAIN e |-> e[i].M_RRdot_GPXY]),
           M_GPXY_RRdot |-> Arr([i \in DOMAIN e |-> inv2x2(e[i].M_RRdot_GPXY)]) ]

compute_gp_xy_parameters(scene_points, ugpn, bp_points, bpdot_points) ==
    gp_xy_ensemble(Arr([i \in DOMAIN scene_points |->
        gp_xy_1(scene_points[i], ugpn[i], bp_points[i], bpdot_points[i])]))
\* ------------------------------------------------------------------------
\* Bistatic R/Rdot -> ground plane (iterative)
\* ------------------------------------------------------------------------
\* a[mask]: the restriction of a batch to the indices the mask selects
Masked(a, mask) == Arr([i \in {j \in DOMAIN a : mask[j]} |-> a[i]])
\* a[mask] = b: the entries of b written over the masked entries of a
Assign(a, b) == Arr([i \in DOMAIN a |-> IF i \in DOMAIN b THEN b[i] ELSE a[i]])
\* np.linalg.norm of a 2-vector
Norm2(v) == IF IsNaN(v[1]) \/ IsNaN(v[2]) THEN NaN
            ELSE IF IsInf(v[1]) \/ IsInf(v[2]) THEN PInf
            ELSE Hypot3(<<v[1], v[2], 0>>)

\* the locals of r_rdot_to_ground_plane_bi before its loop
bi_setup(meta, projection_sets, gref, ugpn) ==
    LET I == DOMAIN gref
        u_up_scp == calc_up(meta.SCP_LatLon)
        dist_gp == Arr([i \in I |-> Div(Dot(VSub(gref[i], meta.SCP), ugpn[i]), Dot(u_up_scp, ugpn[i]))])
        g_0 == Arr([i \in I |-> VAdd(meta.SCP, VScale(dist_gp[i], u_up_scp))])
    IN [ g |-> g_0,
         delta_gp |-> Arr([i \in I |-> NaN]),
         success |-> FALSE,
         above_threshold |-> Arr([i \in I |-> TRUE]),
         iter |-> 0,
         err |-> "none" ]

\* the mask r_rdot_to_ground_plane_bi carries into the next pass
bi_next_mask(delta_gp, delta_gp_gpp) ==
    Arr([i \in DOMAIN delta_gp |-> Gt(delta_gp[i], delta_gp_gpp)])

\* a success flag that one converged element is enough to raise
bi_success_any(delta_gp, delta_gp_gpp) == \E i \in DOMAIN delta_gp : Le(delta_gp[i], delta_gp_gpp)

\* the success flag of r_rdot_to_ground_plane_bi after a pass
bi_success(delta_gp, delta_gp_gpp) == \A i \in DOMAIN delta_gp : Le(delta_gp[i], delta_gp_gpp)

\* the end of a pass: the locals moved by the ground plane displacements delta_gxgy
bi_update(delta_gp_gpp, f, gp_xy_params, delta_gxgy) ==
    LET A == DOMAIN delta_gxgy
        delta_gp == Assign(f.delta_gp, Arr([i \in A |-> Norm2(delta_gxgy[i])]))
    IN [ g |-> Assign(f.g, Arr([i \in A |->
                VAdd(f.g[i], VAdd(VScale(delta_gxgy[i][1], gp_xy_params.uGX[i]),
                                  VScale(delta_gxgy[i][2], gp_xy_params.uGY[i])))])),
         delta_gp |-> delta_gp,
         success |-> bi_success(delta_gp, delta_gp_gpp),
         above_threshold |-> bi_next_mask(delta_gp, delta_gp_gpp),
         iter |-> f.iter + 1,
         err |-> "none" ]

\* M_GPXY_RRdot @ (delta_r_avg, delta_rdot_avg) for one element
bi_delta_gxgy_1(m, delta_r_avg, delta_rdot_avg) ==
    << Add(Mul(m[1][1], delta_r_avg), Mul(m[1][2], delta_rdot_avg)),
       Add(Mul(m[2][1], delta_r_avg), Mul(m[2][2], delta_rdot_avg)) >>

\* a pass from the sensitivity matrices on
bi_displace(projection_sets, delta_gp_gpp, f, pt_r_rdot_params, gp_xy_params) ==
    IF gp_xy_params.err # "none"
    THEN [f EXCEPT !.err = gp_xy_params.err, !.iter = f.iter + 1]
    ELSE bi_update(delta_gp_gpp, f, gp_xy_params,
                   Arr([i \in DOMAIN pt_r_rdot_params.R_Avg_PT |->
                       bi_delta_gxgy_1(gp_xy_params.M_GPXY_RRdot[i],
                                       Sub(projection_sets.R_Avg_COA[i], pt_r_rdot_params.R_Avg_PT[i]),
                                       Sub(projection_sets.Rdot_Avg_COA[i],
                                           pt_r_rdot_params.Rdot_Avg_PT[i]))]))

\* a pass from the scene point parameters on
bi_at_params(projection_sets, ugpn, delta_gp_gpp, f, pt_r_rdot_params) ==
    bi_displace(projection_sets, delta_gp_gpp, f, pt_r_rdot_params,
                compute_gp_xy_parameters(Masked(f.g, f.above_threshold),
                                         Masked(ugpn, f.above_threshold),
                                         pt_r_rdot_params.bP_PT, pt_r_rdot_params.bPDot_PT))

\* one pass of the loop body of r_rdot_to_ground_plane_bi on the locals f
bi_body(meta, projection_sets, ugpn, delta_gp_gpp, f) ==
    bi_at_params(projection_sets, ugpn, delta_gp_gpp, f,
                 compute_pt_r_rdot_parameters(
                     meta,
                     [ Xmt_COA  |-> Masked(projection_sets.Xmt_COA, f.above_threshold),
                       VXmt_COA |-> Masked(projection_sets.VXmt_COA, f.above_threshold),
                       Rcv_COA  |-> Masked(projection_sets.Rcv_COA, f.above_threshold),
                       VRcv_COA |-> Masked(projection_sets.VRcv_COA, f.above_threshold) ],
                     Masked(f.g, f.above_threshold)))
\* a loop without the break on success
LoopEnds_nobreak(f, maxiter) == f.err # "none" \/ f.iter >= maxiter

\* whether the for loop of a solver is left after the pass that produced f
LoopEnds(f, maxiter) == f.err # "none" \/ f.success \/ f.iter >= maxiter

RECURSIVE bi_loop(_, _, _, _, _, _)
bi_loop(meta, projection_sets, ugpn, delta_gp_gpp, maxiter, f) ==
    IF LoopEnds(f, maxiter) THEN f
    ELSE bi_loop(meta, projection_sets, ugpn, delta_gp_gpp, maxiter,
                 bi_body(meta, projection_sets, ugpn, delta_gp_gpp, f))

\* the value r_rdot_to_ground_plane_bi returns: [err, g, delta_gp, success]
r_rdot_to_ground_plane_bi(meta, projection_sets, gref, ugpn, delta_gp_gpp, maxiter) ==
    bi_loop(meta, projection_sets, ugpn, delta_gp_gpp, maxiter,
            bi_setup(meta, projection_sets, gref, ugpn))

\* ------------------------------------------------------------------------
\* Scene to image (iterative)
\* ------------------------------------------------------------------------
NaN2 == <<NaN, NaN>>

\* ground plane unit normals that are all the up direction at the SCP
s2i_u_gpn_scp(s) == Arr([i \in DOMAIN s |-> <<0, 0, ONE>>])

\* the spherical-earth ground plane unit normals of the scene points
s2i_u_gpn(s) == Arr([i \in DOMAIN s |-> Unit(s[i])])

\* the locals of scene_to_image before its loop, from the projection direction
\* u_proj and the image plane unit normal u_ipn on
s2i_locals(s, u_proj, u_ipn) ==
    LET I == DOMAIN s
    IN [ u_gpn |-> s2i_u_gpn(s),
         u_proj |-> u_proj,
         u_ipn |-> u_ipn,
         sf |-> Dot(u_proj, u_ipn),
         g |-> s,
         image_grid_locations |-> Arr([i \in I |-> NaN2]),
         delta_gp |-> Arr([i \in I |-> NaN]),
         success |-> FALSE,
         p |-> Arr([i \in I |-> NaN3]),
         above_threshold |-> Arr([i \in I |-> TRUE]),
         r_rdot_to_ground_success |-> Arr([i \in I |-> FALSE]),
         inner_delta_gp |-> Arr([i \in I |-> NaN]),
         iter |-> 0,
         err |-> "none" ]

\* the locals of scene_to_image before its loop; s is the batch of scene points
s2i_setup(meta, s) ==
    s2i_locals(s, compute_scp_coa_slant_plane_normal(meta), Unit(Cross(meta.uRow, meta.uCol)))

\* a mask that keeps every element active while one is above the threshold
s2i_next_mask_all(delta_gp, delta_gp_s2i) ==
    Arr([i \in DOMAIN delta_gp |-> \E j \in DOMAIN delta_gp : Gt(delta_gp[j], delta_gp_s2i)])

\* a mask that carries every element that is not at or below the threshold
s2i_next_mask_not_le(delta_gp, delta_gp_s2i) ==
    Arr([i \in DOMAIN delta_gp |-> ~Le(delta_gp[i], delta_gp_s2i)])

\* the mask scene_to_image carries into the next pass
s2i_next_mask(delta_gp, delta_gp_s2i) ==
    Arr([i \in DOMAIN delta_gp |-> Gt(delta_gp[i], delta_gp_s2i)])

\* a success flag that looks at the projection flags alone
s2i_success_flags_only(delta_gp, delta_gp_s2i, r_rdot_to_ground_success) ==
    \A i \in DOMAIN delta_gp : r_rdot_to_ground_success[i]

\* a success flag that wants every displacement strictly below the threshold
s2i_success_below(delta_gp, delta_gp_s2i, r_rdot_to_ground_success) ==
    /\ \A i \in DOMAIN delta_gp : Lt(delta_gp[i], delta_gp_s2i)
    /\ \A i \in DOMAIN delta_gp : r_rdot_to_ground_success[i]

\* the success flag of scene_to_image after a pass
s2i_success(delta_gp, delta_gp_s2i, r_rdot_to_ground_success) ==
    /\ \A i \in DOMAIN delta_gp : Le(delta_gp[i], delta_gp_s2i)
    /\ \A i \in DOMAIN delta_gp : r_rdot_to_ground_success[i]

\* the monostatic projection of a pass: the points pts written over the active
\* elements, and the flags of the elements whose point is finite
s2i_project_mono(f, pts) ==
    [ err |-> "none",
      p |-> Assign(f.p, pts),
      inner_delta_gp |-> f.inner_delta_gp,
      r_rdot_to_ground_success |->
          Assign(f.r_rdot_to_ground_success, Arr([i \in DOMAIN pts |-> VFinite(pts[i])])) ]

\* the bistatic projection of a pass: the result bi of r_rdot_to_ground_plane_bi,
\* whose one success flag is written to every active element; inner_delta_gp
\* keeps, per element, the delta_gp array of the result, which the code
\* discards
s2i_project_bi(f, bi) ==
    IF bi.err # "none" THEN [err |-> bi.err]
    ELSE [ err |-> "none",
           p |-> Assign(f.p, bi.g),
           inner_delta_gp |-> Assign(f.inner_delta_gp, bi.delta_gp),
           r_rdot_to_ground_success |->
               Assign(f.r_rdot_to_ground_success, Arr([i \in DOMAIN bi.g |-> bi.success])) ]

\* the precise projection to the ground plane of a pass
s2i_project(meta, s, bistat_delta_gp_gpp, bistat_maxiter, f, projection_sets) ==
    IF is_monostatic(meta)
    THEN s2i_project_mono(f, r_rdot_to_ground_plane_mono(meta, projection_sets,
                                                         Masked(s, f.above_threshold),
                                                         Masked(f.u_gpn, f.above_threshold)))
    ELSE s2i_project_bi(f, r_rdot_to_ground_plane_bi(meta, projection_sets,
                                                     Masked(s, f.above_threshold),
                                                     Masked(f.u_gpn, f.above_threshold),
                                                     bistat_delta_gp_gpp, bistat_maxiter))

\* the end of a pass: the displacements, the next mask and the success flag
s2i_update(s, delta_gp_s2i, f, image_grid_locations, proj) ==
    LET I == DOMAIN s
        delta_p == Arr([i \in I |-> VSub(s[i], proj.p[i])])
        delta_gp == Arr([i \in I |-> Norm(delta_p[i])])
        above_threshold == s2i_next_mask(delta_gp, delta_gp_s2i)
    IN IF proj.err # "none"
       THEN [f EXCEPT !.err = proj.err, !.iter = f.iter + 1]
       ELSE [f EXCEPT
              !.image_grid_locations = image_grid_locations,
              !.p = proj.p,
              !.r_rdot_to_ground_success = proj.r_rdot_to_ground_success,
              !.inner_delta_gp = proj.inner_delta_gp,
              !.delta_gp = delta_gp,
              !.above_threshold = above_threshold,
              !.g = Arr([i \in I |-> IF above_threshold[i] THEN VAdd(f.g[i], delta_p[i]) ELSE f.g[i]]),
              !.success = s2i_success(delta_gp, delta_gp_s2i, proj.r_rdot_to_ground_success),
              !.iter = f.iter + 1 ]

\* a pass from the projection sets pset of the image grid locations on
s2i_at_grid(meta, s, delta_gp_s2i, bistat_delta_gp_gpp, bistat_maxiter, f, image_grid_locations, pset) ==
    IF pset.err # "none"
    THEN [f EXCEPT !.err = pset.err, !.iter = f.iter + 1]
    ELSE s2i_update(s, delta_gp_s2i, f, image_grid_locations,
                    s2i_project(meta, s, bistat_delta_gp_gpp, bistat_maxiter, f, pset.ps))

\* image grid locations of the ground points projected without the scale factor
s2i_grid_locations_unscaled(meta, f) ==
    LET A == {i \in DOMAIN f.g : f.above_threshold[i]}
        ipp == Arr([i \in A |-> VAdd(f.g[i], VScale(Dot(VSub(meta.SCP, f.g[i]), f.u_ipn), f.u_proj))])
    IN Assign(f.image_grid_locations, image_plane_point_to_image_grid(meta, ipp))

\* the image grid locations of a pass: those of the active ground points,
\* projected to the image plane, written over the earlier ones
s2i_grid_locations(meta, f) ==
    LET A == {i \in DOMAIN f.g : f.above_threshold[i]}
        dist == Arr([i \in A |-> Mul(Div(ONE, f.sf), Dot(VSub(meta.SCP, f.g[i]), f.u_ipn))])
        ipp == Arr([i \in A |-> VAdd(f.g[i], VScale(dist[i], f.u_proj))])
    IN Assign(f.image_grid_locations, image_plane_point_to_image_grid(meta, ipp))

\* one pass of the loop body of scene_to_image on the locals f
s2i_body(meta, s, delta_gp_s2i, bistat_delta_gp_gpp, bistat_maxiter, f) ==
    s2i_at_grid(meta, s, delta_gp_s2i, bistat_delta_gp_gpp, bistat_maxiter, f,
                s2i_grid_locations(meta, f),
                compute_projection_sets(meta, Masked(s2i_grid_locations(meta, f),
                                                     f.above_threshold)))
\* ------------------------------------------------------------------------
\* Geodetic conversions on a sphere of the WGS-84 semi-major axis
\* ------------------------------------------------------------------------
\* WGS-84 semi-major axis, 6378137 m, in Mm per SCALE
WGS84_A == (6378 * SCALE) \div 1000

\* ECEF -> (latitude/longitude as direction cosines, height)
ecf_to_geodetic(ecf) == [ latlon |-> VDiv(ecf, Norm(ecf)), h |-> Sub(Norm(ecf), WGS84_A) ]

\* (latitude/longitude as direction cosines, height) -> ECEF
geodetic_to_ecf(llh) == VScale(Add(WGS84_A, llh.h), llh.latlon)

\* ------------------------------------------------------------------------
\* R/Rdot -> constant HAE surface (iterative)
\* ------------------------------------------------------------------------
\* the locals of r_rdot_to_constant_hae_surface before its loop; hae0 is a batch
hae_setup(meta, projection_sets, hae0) ==
    LET I == DOMAIN hae0
        u_gpn1 == calc_up(meta.SCP_LatLon)
        gref1 == Arr([i \in I |-> VAdd(meta.SCP, VScale(Sub(hae0[i], meta.SCP_HAE), u_gpn1))])
    IN [ gref |-> gref1,
         u_gpn |-> Arr([i \in I |-> u_gpn1]),
         u_up |-> Arr([i \in I |-> NaN3]),
         gpp |-> Arr([i \in I |-> NaN3]),
         delta_hae |-> Arr([i \in I |-> NaN]),
         success |-> FALSE,
         above_threshold |-> Arr([i \in I |-> TRUE]),
         r_rdot_to_plane_success |-> Arr([i \in I |-> FALSE]),
         inner_delta_gp |-> Arr([i \in I |-> NaN]),
         iter |-> 0,
         err |-> "none" ]

\* a mask that carries the elements whose height differs from hae0, above or
\* below, by more than the threshold
hae_next_mask_abs(delta_hae, delta_hae_max) ==
    Arr([i \in DOMAIN delta_hae |-> Gt(Abs(delta_hae[i]), delta_hae_max)])

\* the mask r_rdot_to_constant_hae_surface carries into the next pass
hae_next_mask(delta_hae, delta_hae_max) ==
    Arr([i \in DOMAIN delta_hae |-> Gt(delta_hae[i], delta_hae_max)])

\* a success flag that looks at the projection flags alone
hae_success_flags_only(delta_hae, delta_hae_max, r_rdot_to_plane_success) ==
    \A i \in DOMAIN delta_hae : r_rdot_to_plane_success[i]

\* the success flag of r_rdot_to_constant_hae_surface after a pass
hae_success(delta_hae, delta_hae_max, r_rdot_to_plane_success) ==
    /\ \A i \in DOMAIN delta_hae : Le(delta_hae[i], delta_hae_max)
    /\ \A i \in DOMAIN delta_hae : r_rdot_to_plane_success[i]

\* a ProjectionSets with every array restricted to the masked elements
MaskedSets(projection_sets, mask) ==
    [k \in DOMAIN projection_sets |-> Masked(projection_sets[k], mask)]

\* the monostatic projection of a pass: the points pts written over the active
\* elements, and the flags of the elements whose point is finite
hae_project_mono(f, pts) ==
    [ err |-> "none",
      gpp |-> Assign(f.gpp, pts),
      inner_delta_gp |-> f.inner_delta_gp,
      r_rdot_to_plane_success |->
          Assign(f.r_rdot_to_plane_success, Arr([i \in DOMAIN pts |-> VFinite(pts[i])])) ]

\* the bistatic projection of a pass: the result bi of r_rdot_to_ground_plane_bi,
\* whose one success flag is written to every active element; inner_delta_gp
\* keeps, per element, the delta_gp array of the result, which the code
\* discards
hae_project_bi(f, bi) ==
    IF bi.err # "none" THEN [err |-> bi.err]
    ELSE [ err |-> "none",
           gpp |-> Assign(f.gpp, bi.g),
           inner_delta_gp |-> Assign(f.inner_delta_gp, bi.delta_gp),
           r_rdot_to_plane_success |->
               Assign(f.r_rdot_to_plane_success, Arr([i \in DOMAIN bi.g |-> bi.success])) ]

\* the precise projection to the ground plane of a pass
hae_project(meta, projection_sets, bistat_delta_gp_gpp, bistat_maxiter, f) ==
    IF is_monostatic(meta)
    THEN hae_project_mono(f, r_rdot_to_ground_plane_mono(
                                 meta, MaskedSets(projection_sets, f.above_threshold),
                                 Masked(f.gref, f.above_threshold),
                                 Masked(f.u_gpn, f.above_threshold)))
    ELSE hae_project_bi(f, r_rdot_to_ground_plane_bi(
                               meta, MaskedSets(projection_sets, f.above_threshold),
                               Masked(f.gref, f.above_threshold),
                               Masked(f.u_gpn, f.above_threshold),
                               bistat_delta_gp_gpp, bistat_maxiter))

\* the end of a pass: the heights of the projected points, the next mask, the
\* success flag and, without success, the next ground planes
hae_update(hae0, delta_hae_max, f, proj) ==
    LET I == DOMAIN hae0
        A == {i \in I : f.above_threshold[i]}
        gpp_llh == Arr([i \in A |-> ecf_to_geodetic(proj.gpp[i])])
        u_up == Assign(f.u_up, Arr([i \in A |-> calc_up(gpp_llh[i].latlon)]))
        delta_hae == Assign(f.delta_hae, Arr([i \in A |-> Sub(gpp_llh[i].h, hae0[i])]))
        above_threshold == hae_next_mask(delta_hae, delta_hae_max)
        success == hae_success(delta_hae, delta_hae_max, proj.r_rdot_to_plane_success)
    IN IF proj.err # "none"
       THEN [f EXCEPT !.err = proj.err, !.iter = f.iter + 1]
       ELSE [ gref |-> IF success THEN f.gref
                       ELSE Arr([i \in I |-> IF above_threshold[i]
                                         THEN VSub(proj.gpp[i], VScale(delta_hae[i], u_up[i]))
                                         ELSE f.gref[i]]),
              u_gpn |-> IF success THEN f.u_gpn
                        ELSE Arr([i \in I |-> IF above_threshold[i] THEN u_up[i] ELSE f.u_gpn[i]]),
              u_up |-> u_up,
              gpp |-> proj.gpp,
              delta_hae |-> delta_hae,
              success |-> success,
              above_threshold |-> above_threshold,
              r_rdot_to_plane_success |-> proj.r_rdot_to_plane_success,
              inner_delta_gp |-> proj.inner_delta_gp,
              iter |-> f.iter + 1,
              err |-> "none" ]

\* one pass of the loop body of r_rdot_to_constant_hae_surface on the locals f
hae_body(meta, projection_sets, hae0, delta_hae_max, bistat_delta_gp_gpp, bistat_maxiter, f) ==
    hae_update(hae0, delta_hae_max, f,
               hae_project(meta, projection_sets, bistat_delta_gp_gpp, bistat_maxiter, f))

\* the slant plane unit normals tangent to the R/Rdot contour at the points gpp
hae_u_spn(meta, projection_sets, gpp) ==
    IF is_monostatic(meta)
    THEN Arr([i \in DOMAIN gpp |->
             Unit(VScale(LookOf(meta), Cross(projection_sets.VARP_COA[i],
                                             VSub(gpp[i], projection_sets.ARP_COA[i]))))])
    ELSE compute_pt_r_rdot_parameters(
             meta,
             [ Xmt_COA  |-> projection_sets.Xmt_COA,
               VXmt_COA |-> projection_sets.VXmt_COA,
               Rcv_COA  |-> projection_sets.Rcv_COA,
               VRcv_COA |-> projection_sets.VRcv_COA ],
             gpp).uSPN_PT

\* the straight-line projection from the points gpp along u_spn, set on the
\* surface of height hae0
hae_surface_points(hae0, f, u_spn) ==
    LET I == DOMAIN hae0
        sf == Arr([i \in I |-> Dot(f.u_up[i], u_spn[i])])
        slp == Arr([i \in I |-> VSub(f.gpp[i], VDiv(VScale(f.delta_hae[i], u_spn[i]), sf[i]))])
        slp_llh == Arr([i \in I |-> ecf_to_geodetic(slp[i])])
        spp_llh == Arr([i \in I |-> [slp_llh[i] EXCEPT !.h = hae0[i]]])
    IN Arr([i \in I |-> geodetic_to_ecf(spp_llh[i])])

\* the statements of r_rdot_to_constant_hae_surface after its loop: the surface
\* points spp_tgt computed from the final locals f
hae_finish(meta, projection_sets, hae0, f) ==
    hae_surface_points(hae0, f, hae_u_spn(meta, projection_sets, f.gpp))
\* what r_rdot_to_constant_hae_surface returns from the final locals f
HaeReturn(meta, projection_sets, hae0, f) ==
    [ err |-> "none", spp_tgt |-> hae_finish(meta, projection_sets, hae0, f),
      delta_hae |-> f.delta_hae, success |-> f.success ]

\* the for loop of r_rdot_to_constant_hae_surface from the locals f on
RECURSIVE hae_loop(_, _, _, _, _, _, _, _)
hae_loop(meta, projection_sets, hae0, delta_hae_max, nlim, bistat_delta_gp_gpp, bistat_maxiter, f) ==
    IF LoopEnds(f, nlim) THEN f
    ELSE hae_loop(meta, projection_sets, hae0, delta_hae_max, nlim, bistat_delta_gp_gpp,
                  bistat_maxiter,
                  hae_body(meta, projection_sets, hae0, delta_hae_max, bistat_delta_gp_gpp,
                           bistat_maxiter, f))

\* what the call returns or raises after the loop left the locals f
HaeResult(meta, projection_sets, hae0, f) ==
    IF f.err # "none" THEN [err |-> f.err]
    ELSE HaeReturn(meta, projection_sets, hae0, f)

\* the whole call
r_rdot_to_constant_hae_surface(meta, projection_sets, hae0, delta_hae_max, nlim, bistat_delta_gp_gpp, bistat_maxiter) ==
    HaeResult(meta, projection_sets, hae0,
              hae_loop(meta, projection_sets, hae0, delta_hae_max, nlim, bistat_delta_gp_gpp,
                       bistat_maxiter, hae_setup(meta, projection_sets, hae0)))

\* ------------------------------------------------------------------------
\* Collection metadata of the calls (params.MetadataParams values)
\* ------------------------------------------------------------------------
V3(x, y, z) == <<Lit(x), Lit(y), Lit(z)>>

\* the scene centre point: the north pole of the sphere
SCP0 == <<0, 0, WGS84_A>>

\* a monostatic collection: the ARP passes 6 Mm above and 6 Mm beside the SCP
MonoMeta(side, grid, ifa) ==
    [ Collect_Type |-> "MONOSTATIC",
      SCP |-> SCP0, SCP_LatLon |-> <<0, 0, ONE>>, SCP_HAE |-> 0,
      uRow |-> V3(0, 707, -707), uCol |-> V3(1000, 0, 0),
      SideOfTrack |-> side, Grid_Type |-> grid, IFA |-> ifa,
      cT_COA |-> << <<0>> >>,
      ARP_Poly |-> << VAdd(SCP0, V3(0, -6000, 6000)), V3(1000, 0, 0) >>,
      cPA |-> <<0, Lit(-118)>>, cKSF |-> <<ONE>>,
      ARP_SCP_COA |-> VAdd(SCP0, V3(0, -6000, 6000)),
      VARP_SCP_COA |-> V3(1000, 0, 0) ]

\* a bistatic collection without its SCP COA fields
BiMeta0(side, grid, ifa) ==
    [ Collect_Type |-> "BISTATIC",
      SCP |-> SCP0, SCP_LatLon |-> <<0, 0, ONE>>, SCP_HAE |-> 0,
      uRow |-> V3(0, 707, -707), uCol |-> V3(1000, 0, 0),
      SideOfTrack |-> side, Grid_Type |-> grid, IFA |-> ifa,
      cT_COA |-> << <<0>> >>,
      Xmt_Poly |-> << VAdd(SCP0, V3(0, -6000, 6000)), V3(1000, 0, 0) >>,
      Rcv_Poly |-> << VAdd(SCP0, V3(0, -5000, 5000)), V3(1000, 0, 0) >>,
      GRP_Poly |-> << SCP0 >>,
      cPA |-> <<0, Lit(-130)>>, cKSF |-> <<ONE>> ]

\* the collection m with the SCP COA positions and velocities read off the
\* ensemble coa of one COA time
WithScpCoa(m, coa) ==
    [ Collect_Type |-> m.Collect_Type,
      SCP |-> m.SCP, SCP_LatLon |-> m.SCP_LatLon, SCP_HAE |-> m.SCP_HAE,
      uRow |-> m.uRow, uCol |-> m.uCol,
      SideOfTrack |-> m.SideOfTrack, Grid_Type |-> m.Grid_Type, IFA |-> m.IFA,
      cT_COA |-> m.cT_COA,
      Xmt_Poly |-> m.Xmt_Poly, Rcv_Poly |-> m.Rcv_Poly, GRP_Poly |-> m.GRP_Poly,
      cPA |-> m.cPA, cKSF |-> m.cKSF,
      Xmt_SCP_COA |-> coa.Xmt_COA[1], VXmt_SCP_COA |-> coa.VXmt_COA[1],
      Rcv_SCP_COA |-> coa.Rcv_COA[1], VRcv_SCP_COA |-> coa.VRcv_COA[1] ]

\* a bistatic collection with its SCP COA fields, those of COA time 0
BiMeta(side, grid, ifa) ==
    WithScpCoa(BiMeta0(side, grid, ifa),
               compute_coa_pos_vel(BiMeta0(side, grid, ifa), Arr([i \in {1} |-> 0])))

\* ------------------------------------------------------------------------
\* Arguments of the calls
\* ------------------------------------------------------------------------
\* the batches (1-D arrays) of 1..MaxBatch distinct elements drawn from S
Batches(S) ==
    UNION { {b \in [1..n -> S] : \A i, j \in 1..n : b[i] = b[j] => i = j} : n \in 1..MaxBatch }

\* image grid locations (xrow, ycol)
GridLocs == { <<0, 0>>, <<Lit(300), Lit(500)>> }

\* scene points: the SCP, two points near it, and a point 13.6 Mm above it
ScenePoints == { SCP0, V3(-700, -700, 6378), V3(-300, 800, 6320), V3(0, 0, 20000) }

\* every (Collect_Type, Grid_Type, IFA) combination
DispatchMetas == {MonoMeta("L", gt, ifa) : gt \in GridTypes, ifa \in IFAs}
                 \cup {BiMeta("L", gt, ifa) : gt \in GridTypes, ifa \in IFAs}

\* RGAZIM/PFA collections with a COA time that varies over the grid, a polar
\* angle that is not 0 at the SCP COA time and a scale factor that varies with
\* the polar angle
PfaMetas ==
    { [ MonoMeta("L", "RGAZIM", "PFA") EXCEPT
          !.cT_COA = << <<Lit(500), Lit(100)>>, <<Lit(200), 0>> >>,
          !.cPA = <<Lit(50), Lit(-118)>>, !.cKSF = <<ONE, Lit(200)>> ],
      [ BiMeta("L", "RGAZIM", "PFA") EXCEPT
          !.cPA = <<Lit(50), Lit(-130)>>, !.cKSF = <<ONE, Lit(200)>> ] }

\* the collections of the solver calls
SolverMetas == { MonoMeta("L", "RGAZIM", "PFA"), MonoMeta("R", "RGAZIM", "PFA"),
                 BiMeta("L", "RGAZIM", "PFA") }

\* ------------------------------------------------------------------------
\* SICD NITF writer: the image segments (io.py)
\* ------------------------------------------------------------------------
\* Python integers have no width. The byte counts of the writer (up to
\* 2 * 10^9 columns of 8 bytes, times the rows) are kept as BigLimbs limbs in
\* base BASE, least significant first.
BASE == 10000
BigLimbs == 6

\* the limbs from the index k on of the limb sums raw with the carry c
RECURSIVE CarryFrom(_, _, _)
CarryFrom(raw, k, c) ==
    IF k > BigLimbs THEN <<>>
    ELSE <<(raw[k] + c) % BASE>> \o CarryFrom(raw, k + 1, (raw[k] + c) \div BASE)

BigCarry(raw) == CarryFrom(raw, 1, 0)

\* the integer n >= 0
BigOf(n) == BigCarry([k \in 1..BigLimbs |-> IF k = 1 THEN n ELSE 0])

\* a - b, for a >= b
BigSub(a, b) == BigCarry([k \in 1..BigLimbs |-> a[k] - b[k]])

\* a + b
BigAdd(a, b) == BigCarry([k \in 1..BigLimbs |-> a[k] + b[k]])

\* the sum of a[i] * b[k + 1 - i] over i in 1..n
RECURSIVE ConvSum(_, _, _, _)
ConvSum(a, b, k, n) == IF n = 0 THEN 0 ELSE a[n] * b[k + 1 - n] + ConvSum(a, b, k, n - 1)

\* a * b
BigMul(a, b) == BigCarry([k \in 1..BigLimbs |-> ConvSum(a, b, k, k)])

\* a < b, decided from the limb k down
RECURSIVE BigLtFrom(_, _, _)
BigLtFrom(a, b, k) ==
    IF k = 0 THEN FALSE
    ELSE IF a[k] # b[k] THEN a[k] < b[k]
    ELSE BigLtFrom(a, b, k - 1)

BigLt(a, b) == BigLtFrom(a, b, BigLimbs)
BigLe(a, b) == ~BigLt(b, a)

\* the largest q in lo..hi with q * b <= a, where lo * b <= a
RECURSIVE FloorDivWithin(_, _, _, _)
FloorDivWithin(a, b, lo, hi) ==
    IF lo = hi THEN lo
    ELSE IF BigLe(BigMul(BigOf((lo + hi + 1) \div 2), b), a)
    THEN FloorDivWithin(a, b, (lo + hi + 1) \div 2, hi)
    ELSE FloorDivWithin(a, b, lo, (lo + hi + 1) \div 2 - 1)

\* PIXEL_TYPES[pixel_type]["bytes"] and ["dtype"]
PixelTypes == { "RE32F_IM32F", "RE16I_IM16I", "AMP8I_PHS8I" }
PixelBytes(pixel_type) ==
    CASE pixel_type = "RE32F_IM32F" -> 8
      [] pixel_type = "RE16I_IM16I" -> 4
      [] pixel_type = "AMP8I_PHS8I" -> 2
PixelDtype(pixel_type) ==
    CASE pixel_type = "RE32F_IM32F" -> "complex64"
      [] pixel_type = "RE16I_IM16I" -> "real_int16_imag_int16"
      [] pixel_type = "AMP8I_PHS8I" -> "amp_uint8_phase_uint8"

\* allowable image segment size, 10**10 - 2, and the largest row offset of ILOC
is_size_max == BigSub(BigMul(BigOf(100000), BigOf(100000)), BigOf(2))
iloc_max == 99999

bytes_per_row(cols, pixel_type) == BigMul(BigOf(cols), BigOf(PixelBytes(pixel_type)))
product_size(rows, cols, pixel_type) == BigMul(bytes_per_row(cols, pixel_type), BigOf(rows))

\* Quotients are followed up to LimitCap; the larger ones are all above iloc_max.
LimitCap == 2 * iloc_max

\* int(np.floor(is_size_max / bytes_per_row)), up to LimitCap: both numbers are
\* below 2^53, so the float quotient has the floor of the exact one
limit_1(cols, pixel_type) ==
    FloorDivWithin(is_size_max, bytes_per_row(cols, pixel_type), 0, LimitCap)

\* a row limit that lets a segment start one row past the ILOC limit
num_rows_limit_past_iloc(l1) == IF iloc_max + 1 < l1 THEN iloc_max + 1 ELSE l1

\* min(iloc_max, limit_1)
num_rows_limit_of(l1) == IF iloc_max < l1 THEN iloc_max ELSE l1

num_rows_limit(cols, pixel_type) == num_rows_limit_of(limit_1(cols, pixel_type))

\* the smaller of two integers
Min(a, b) == IF a < b THEN a ELSE b

\* one pass of the while loop on the locals f
plan_pass(rows, cols, f) ==
    [ f EXCEPT
        !.image_segment_limits =
            Append(@, <<f.row_offset, Min(rows, f.row_offset + f.num_rows_limit), 0, cols>>),
        !.row_offset = Min(rows, f.row_offset + f.num_rows_limit) ]

\* ------------------------------------------------------------------------
\* SicdNitfWriter.write_image (io.py)
\* ------------------------------------------------------------------------
\* The start argument is None, a pair of Python ints, or a pair of floats:
\* [kind |-> "none"], [kind |-> "int", at |-> <<r, c>>], [kind |-> "float", at |-> <<r, c>>].
\* The array argument is a 2-D array [dtype |-> d, shape |-> <<n, m>>].
StartNone == [kind |-> "none"]

\* np.any(a != b) of two pairs
any_differs(a, b) == a[1] # b[1] \/ a[2] # b[2]

\* np.asarray(start), after start = (0, 0) replaced None
startarr_of(start) == IF start.kind = "none" THEN [kind |-> "int", at |-> <<0, 0>>] ELSE start

\* np.issubdtype(startarr.dtype, np.integer)
is_integer_dtype(startarr) == startarr.kind = "int"

\* np.any(startarr < 0)
any_negative(startarr) == startarr.at[1] < 0 \/ startarr.at[2] < 0

\* startarr + array.shape
stop_of(startarr, shape) == <<startarr.at[1] + shape[1], startarr.at[2] + shape[2]>>

\* a test of stop that passes an array reaching beyond the image in one dimension
all_beyond(stop, sicd_shape) == stop[1] > sicd_shape[1] /\ stop[2] > sicd_shape[2]

\* np.any(stop > sicd_shape)
any_beyond(stop, sicd_shape) == stop[1] > sicd_shape[1] \/ stop[2] > sicd_shape[2]

\* the call of self._nitf_writer.write
nitf_write(array, startarr) == [array |-> array, start_indices |-> startarr.at]

\* write_image(array, start) of a writer planned for pixel_type and sicd_shape:
\* the error raised and the writes made on the underlying NITF writer
write_image(pixel_type, sicd_shape, array, start) ==
    IF PixelDtype(pixel_type) # array.dtype
    THEN [err |-> "ValueError", nitf_writes |-> <<>>]
    ELSE IF start.kind = "none" /\ any_differs(array.shape, sicd_shape)
    THEN [err |-> "ValueError", nitf_writes |-> <<>>]
    ELSE IF ~is_integer_dtype(startarr_of(start))
    THEN [err |-> "ValueError", nitf_writes |-> <<>>]
    ELSE IF any_negative(startarr_of(start))
    THEN [err |-> "ValueError", nitf_writes |-> <<>>]
    ELSE IF any_beyond(stop_of(startarr_of(start), array.shape), sicd_shape)
    THEN [err |-> "ValueError", nitf_writes |-> <<>>]
    ELSE [err |-> "none", nitf_writes |-> <<nitf_write(array, startarr_of(start))>>]

\* ------------------------------------------------------------------------
\* read_sicd_xml and SicdNitfReader (io.py)
\* ------------------------------------------------------------------------
\* A file has a format and, when it is a SICD, the XML document it carries:
\* [format |-> "sicd_xml" | "sicd_nitf" | "other_nitf", xml |-> id].
\* An opened file is [content |-> c, position |-> p].

\* Length of the files, in read units.
FileSize == 6

\* open(file, "rb") of a path, or the file object itself
file_object_of(file, content) ==
    [content |-> content, position |-> IF file.kind = "path" THEN 0 ELSE file.offset]

\* lxml.etree.parse(file): a path is read from its start; a file object is read
\* from its position on, and keeps the position the parser read to, any
\* position after the one it had. The document is returned when the text read
\* is an XML document, and XMLSyntaxError raised otherwise.
xml_parse_outcomes(file, content) ==
    IF content.format = "sicd_xml" /\ (file.kind = "path" \/ file.offset = 0)
    THEN { [err |-> "none", tree |-> content.xml,
            position |-> IF file.kind = "path" THEN 0 ELSE FileSize] }
    ELSE { [err |-> "XMLSyntaxError", tree |-> "none", position |-> p] :
             p \in IF file.kind = "path" THEN {0} ELSE (file.offset + 1)..FileSize }

\* SicdNitfReader(file) on the file object f: the error raised and sicd_xmltree.
\* NITFDetails rejects a file that is no NITF ("NitfError").
SicdNitfReader_init(f) ==
    IF f.position # 0 THEN [err |-> "RuntimeError", tree |-> "none"]
    ELSE IF f.content.format = "sicd_nitf" THEN [err |-> "none", tree |-> f.content.xml]
    ELSE IF f.content.format = "other_nitf" THEN [err |-> "ValueError", tree |-> "none"]
    ELSE [err |-> "NitfError", tree |-> "none"]

\* read_sicd_xml(file) when lxml.etree.parse had the outcome parsed
read_sicd_xml(file, content, parsed) ==
    IF parsed.err = "none" THEN [err |-> "none", tree |-> parsed.tree]
    ELSE SicdNitfReader_init([ file_object_of(file, content) EXCEPT !.position = parsed.position ])

\* ------------------------------------------------------------------------
\* The calls as a state machine
\* ------------------------------------------------------------------------
VARIABLES
    pc,     \* "idle", "loop" (inside the for loop of a solver), "done", "raised"
    op,     \* the function called
    args,   \* its arguments
    frame,  \* its local variables
    ret,    \* what it returned or raised
    mem     \* the caller's objects that were passed as arguments, as they are in memory

vars == <<pc, op, args, frame, ret, mem>>

Init ==
    /\ pc = "idle"
    /\ op = "none"
    /\ args = <<>>
    /\ frame = <<>>
    /\ ret = <<>>
    /\ mem = <<>>

\* storage in which scene_to_image keeps its ground points in the caller's array
Storage_shared_g(name) ==
    IF name = "scene_to_image" THEN [ g |-> "scene_points" ] ELSE <<>>

\* For each array a function assigns to in place (a[mask] = ..., a[mask] += ...):
\* the argument whose memory the array shares, "own" when the array was
\* allocated inside the call (np.full, np.array, .copy(), or the result of an
\* arithmetic expression).
Storage(name) ==
    CASE name = "r_rdot_to_ground_plane_mono" ->
             [ arpz |-> "own", vx |-> "own", cos_az |-> "own" ]
      [] name = "r_rdot_to_ground_plane_bi" ->
             [ g |-> "own", delta_gp |-> "own" ]
      [] name = "scene_to_image" ->
             [ g |-> "own", image_grid_locations |-> "own", p |-> "own",
               r_rdot_to_ground_success |-> "own" ]
      [] name = "r_rdot_to_constant_hae_surface" ->
             [ gref |-> "own", u_gpn |-> "own", u_up |-> "own", gpp |-> "own",
               delta_hae |-> "own", r_rdot_to_plane_success |-> "own" ]
      [] OTHER -> <<>>

\* the caller's objects m after the in-place assignments that gave the locals f
StoreWrites(name, m, f) ==
    [ k \in DOMAIN m |->
        IF \E w \in DOMAIN Storage(name) : Storage(name)[w] = k
        THEN f[CHOOSE w \in DOMAIN Storage(name) : Storage(name)[w] = k]
        ELSE m[k] ]

\* a call with the locals f that returns or raises in one step
FinishWith(name, a, f, r) ==
    /\ pc = "idle"
    /\ op' = name
    /\ args' = a
    /\ frame' = f
    /\ mem' = StoreWrites(name, a, f)
    /\ ret' = r
    /\ pc' = IF r.err = "none" THEN "done" ELSE "raised"

\* a call that returns or raises in one step
Finish(name, a, r) == FinishWith(name, a, <<>>, r)

CallComputeCoaRRdot ==
    \E meta \in DispatchMetas \cup PfaMetas, locs \in Batches(GridLocs) :
        \E t_coa \in {compute_coa_time(meta, locs)} :
            Finish("compute_coa_r_rdot", [meta |-> meta, image_grid_locations |-> locs],
                   compute_coa_r_rdot(meta, locs, t_coa, compute_coa_pos_vel(meta, t_coa)))

CallComputeProjectionSets ==
    \E meta \in DispatchMetas, locs \in Batches(GridLocs) :
        Finish("compute_projection_sets", [meta |-> meta, image_grid_locations |-> locs],
               compute_projection_sets(meta, locs))

\* ---- compute_coa_pos_vel ----
\* COA times in seconds relative to collect start
CoaTimes == { 0, Lit(1000) }

CoaMetas == { MonoMeta("L", "RGAZIM", "PFA"), BiMeta("L", "RGAZIM", "PFA") }

CallComputeCoaPosVel ==
    \E meta \in CoaMetas, t_coa \in Batches(CoaTimes) :
        Finish("compute_coa_pos_vel", [meta |-> meta, t_coa |-> t_coa],
               [err |-> "none", coa |-> compute_coa_pos_vel(meta, t_coa)])

\* ---- compute_pt_r_rdot_parameters ----
\* bistatic collections looking left and right
PtMetas == { BiMeta("L", "RGAZIM", "PFA"), BiMeta("R", "RGAZIM", "PFA") }

CallComputePtRRdotParameters ==
    \E meta \in PtMetas, scene_points \in Batches(ScenePoints) :
        \E coa_pos_vels \in {compute_coa_pos_vel(meta, Arr([i \in DOMAIN scene_points |-> 0]))} :
            Finish("compute_pt_r_rdot_parameters",
                   [meta |-> meta, coa_pos_vels |-> coa_pos_vels, scene_points |-> scene_points],
                   [err |-> "none",
                    params |-> compute_pt_r_rdot_parameters(meta, coa_pos_vels, scene_points)])

\* ---- image_grid_to_image_plane_point, image_plane_point_to_image_grid ----
\* a collection with the image plane axes uRow, uCol
GridMeta(uRow, uCol) ==
    [ MonoMeta("L", "RGAZIM", "PFA") EXCEPT !.uRow = uRow, !.uCol = uCol ]

\* orthogonal axes, axes at 53 degrees, the axes of the other calls, and two
\* pairs of collinear axes (the same and opposite directions)
GridMetas == { GridMeta(V3(1000, 0, 0), V3(0, 1000, 0)),
               GridMeta(V3(1000, 0, 0), V3(600, 800, 0)),
               MonoMeta("L", "RGAZIM", "PFA"),
               GridMeta(V3(1000, 0, 0), V3(1000, 0, 0)),
               GridMeta(V3(1000, 0, 0), V3(-1000, 0, 0)) }

\* image grid locations (xrow, ycol) of the conversions
ConvGridLocs == GridLocs \cup { <<Lit(-2000), Lit(1500)>> }

CallImageGridToImagePlanePoint ==
    \E meta \in GridMetas, locs \in Batches(ConvGridLocs) :
        Finish("image_grid_to_image_plane_point",
               [meta |-> meta, image_grid_locations |-> locs],
               [err |-> "none", ipp |-> image_grid_to_image_plane_point(meta, locs)])

\* the image plane points of the grid locations and a point off the image plane
ImagePlanePoints(meta) ==
    { image_grid_to_image_plane_point_1(meta, l) : l \in ConvGridLocs }
    \cup { VAdd(meta.SCP, V3(100, 200, 300)) }

CallImagePlanePointToImageGrid ==
    \E meta \in GridMetas :
        \E pts \in Batches(ImagePlanePoints(meta)) :
            Finish("image_plane_point_to_image_grid",
                   [meta |-> meta, image_plane_points |-> pts],
                   [err |-> "none", il |-> image_plane_point_to_image_grid(meta, pts)])

\* ---- compute_scp_coa_slant_plane_normal ----
SpnMetas == { MonoMeta(side, "RGAZIM", "PFA") : side \in {"L", "R"} }
            \cup { BiMeta(side, "RGAZIM", "PFA") : side \in {"L", "R"} }

CallComputeScpCoaSlantPlaneNormal ==
    \E meta \in SpnMetas :
        Finish("compute_scp_coa_slant_plane_normal", [meta |-> meta],
               [err |-> "none", spn |-> compute_scp_coa_slant_plane_normal(meta)])

\* ---- compute_gp_xy_parameters ----
\* one element: a scene point on the plane with unit normal ugpn, and the
\* bistatic pointing vector bp with its derivative bpdot
GpXyElem(bp, bpdot) == [ pt |-> SCP0, ugpn |-> <<0, 0, ONE>>, bp |-> bp, bpdot |-> bpdot ]

\* two elements with a solution, one with bPDot perpendicular to uGY, and one
\* with bP parallel to uGPN
GpXyElems ==
    { GpXyElem(V3(0, -600, 800), V3(100, 50, 0)),
      GpXyElem(V3(600, 0, 800), V3(0, 100, 0)),
      GpXyElem(V3(0, -600, 800), V3(0, 50, 0)),
      GpXyElem(V3(0, 0, 800), V3(100, 50, 0)) }

CallComputeGpXyParameters ==
    \E elems \in Batches(GpXyElems) :
        \E scene_points \in {Arr([i \in DOMAIN elems |-> elems[i].pt])},
           ugpn \in {Arr([i \in DOMAIN elems |-> elems[i].ugpn])},
           bp_points \in {Arr([i \in DOMAIN elems |-> elems[i].bp])},
           bpdot_points \in {Arr([i \in DOMAIN elems |-> elems[i].bpdot])} :
            Finish("compute_gp_xy_parameters",
                   [scene_points |-> scene_points, ugpn |-> ugpn,
                    bp_points |-> bp_points, bpdot_points |-> bpdot_points],
                   compute_gp_xy_parameters(scene_points, ugpn, bp_points, bpdot_points))

\* one element of a monostatic projection set with its ground plane
MonoElem(varp, r, rdot) ==
    [ ARP_COA |-> VAdd(SCP0, V3(0, -6000, 6000)), VARP_COA |-> varp,
      R_COA |-> r, Rdot_COA |-> rdot, gref |-> SCP0, ugpn |-> <<0, 0, ONE>> ]

\* a solvable element, a second one, one out of reach (|arpz| > R_COA), one on the
\* boundary |arpz| = R_COA, one with cos_az outside [-1, 1], and one with the
\* velocity along the plane normal (vx = 0)
MonoElems ==
    { MonoElem(V3(1000, 0, 0), Lit(8485), 0),
      MonoElem(V3(600, 0, 800), Lit(9000), Lit(300)),
      MonoElem(V3(1000, 0, 0), Lit(5000), 0),
      MonoElem(V3(1000, 0, 0), Lit(6000), 0),
      MonoElem(V3(1000, 0, 0), Lit(8485), Lit(2000)),
      MonoElem(V3(0, 0, 1000), Lit(8485), 0) }

\* the ProjectionSets of a batch of such elements
MonoSets(elems) ==
    [ t_COA |-> Arr([i \in DOMAIN elems |-> 0]),
      ARP_COA |-> Arr([i \in DOMAIN elems |-> elems[i].ARP_COA]),
      VARP_COA |-> Arr([i \in DOMAIN elems |-> elems[i].VARP_COA]),
      R_COA |-> Arr([i \in DOMAIN elems |-> elems[i].R_COA]),
      Rdot_COA |-> Arr([i \in DOMAIN elems |-> elems[i].Rdot_COA]) ]

CallMono ==
    \E side \in {"L", "R"}, elems \in Batches(MonoElems) :
        \E meta \in {MonoMeta(side, "RGAZIM", "PFA")},
           projection_sets \in {MonoSets(elems)},
           gref \in {Arr([i \in DOMAIN elems |-> elems[i].gref])},
           ugpn \in {Arr([i \in DOMAIN elems |-> elems[i].ugpn])} :
            FinishWith("r_rdot_to_ground_plane_mono",
                       [meta |-> meta, projection_sets |-> projection_sets, gref |-> gref, ugpn |-> ugpn],
                       mono_written(meta, projection_sets, gref, ugpn),
                       [err |-> "none",
                        gpp |-> r_rdot_to_ground_plane_mono(meta, projection_sets, gref, ugpn)])

\* a solver call enters its loop, or returns at once when the bound is 0
Enter(name, a, f, maxiter, r) ==
    /\ pc = "idle"
    /\ op' = name
    /\ args' = a
    /\ frame' = f
    /\ mem' = StoreWrites(name, a, f)
    /\ IF maxiter = 0
       THEN pc' = "done" /\ ret' = r
       ELSE pc' = "loop" /\ ret' = <<>>

\* one pass of the loop of the running solver gave the locals f; the loop is left
\* when it ends, and the call then returns r or raises
Pass(f, maxiter, r) ==
    /\ frame' = f
    /\ mem' = StoreWrites(op, mem, f)
    /\ UNCHANGED <<op, args>>
    /\ IF f.err # "none" THEN pc' = "raised" /\ ret' = [err |-> f.err]
       ELSE IF LoopEnds(f, maxiter) THEN pc' = "done" /\ ret' = r
       ELSE pc' = "loop" /\ ret' = <<>>

\* ---- r_rdot_to_ground_plane_bi ----
\* elements of a bistatic projection set: the set of a grid location, the same
\* with R_Avg_COA not a number, and the same with an unreachable Rdot_Avg_COA
BiKinds == { [loc |-> l, kind |-> "ok"] : l \in GridLocs }
           \cup { [loc |-> <<0, 0>>, kind |-> "nan"], [loc |-> <<0, 0>>, kind |-> "far"] }

\* the projection set ps with the range or range rate of the elements replaced
BiSetsOf(ps, elems) ==
    [ ps EXCEPT
        !.R_Avg_COA = Arr([i \in DOMAIN elems |->
                         IF elems[i].kind = "nan" THEN NaN ELSE ps.R_Avg_COA[i]]),
        !.Rdot_Avg_COA = Arr([i \in DOMAIN elems |->
                            IF elems[i].kind = "far" THEN Lit(3000) ELSE ps.Rdot_Avg_COA[i]]) ]

BiSets(meta, elems) ==
    BiSetsOf(compute_projection_sets(meta, Arr([i \in DOMAIN elems |-> elems[i].loc])).ps, elems)

BiReturn(f) == [err |-> "none", g |-> f.g, delta_gp |-> f.delta_gp, success |-> f.success]

CallBi ==
    \E elems \in Batches(BiKinds), maxiter \in 0..MaxIter :
        \E meta \in {BiMeta("L", "RGAZIM", "PFA")},
           gref \in {Arr([i \in DOMAIN elems |-> SCP0])},
           ugpn \in {Arr([i \in DOMAIN elems |-> <<0, 0, ONE>>])} :
            \E projection_sets \in {BiSets(meta, elems)} :
                \E f \in {bi_setup(meta, projection_sets, gref, ugpn)} :
                    Enter("r_rdot_to_ground_plane_bi",
                          [meta |-> meta, projection_sets |-> projection_sets, gref |-> gref,
                           ugpn |-> ugpn, delta_gp_gpp |-> Lit(10), maxiter |-> maxiter],
                          f, maxiter, BiReturn(f))

BiIterate ==
    /\ pc = "loop"
    /\ op = "r_rdot_to_ground_plane_bi"
    /\ \E f \in {bi_body(args.meta, args.projection_sets, args.ugpn, args.delta_gp_gpp, frame)} :
           Pass(f, args.maxiter, BiReturn(f))

\* ---- scene_to_image ----
\* a monostatic collection whose image plane contains the SCP slant plane normal
MonoMetaEdgeOn == [ MonoMeta("L", "RGAZIM", "PFA") EXCEPT !.uRow = V3(0, 707, 707) ]

S2IMetas == SolverMetas \cup { MonoMeta("L", "PLANE", "PFA"), MonoMetaEdgeOn }

S2IReturn(f) == [ err |-> "none", image_grid_locations |-> f.image_grid_locations,
                  delta_gp |-> f.delta_gp, success |-> f.success ]

CallS2I ==
    \E meta \in S2IMetas, s \in Batches(ScenePoints), delta_gp_s2i \in {0, Lit(10)},
       maxiter \in 0..MaxIter :
        \E bistat_maxiter \in (IF is_monostatic(meta) THEN {MaxIter} ELSE {1, MaxIter}) :
            \E f \in {s2i_setup(meta, s)} :
                Enter("scene_to_image",
                      [meta |-> meta, scene_points |-> s, delta_gp_s2i |-> delta_gp_s2i,
                       maxiter |-> maxiter, bistat_delta_gp_gpp |-> Lit(10),
                       bistat_maxiter |-> bistat_maxiter],
                      f, maxiter, S2IReturn(f))

S2IIterate ==
    /\ pc = "loop"
    /\ op = "scene_to_image"
    /\ \E f \in {s2i_body(args.meta, args.scene_points, args.delta_gp_s2i,
                           args.bistat_delta_gp_gpp, args.bistat_maxiter, frame)} :
           Pass(f, args.maxiter, S2IReturn(f))

\* ---- r_rdot_to_constant_hae_surface ----
\* a collection whose SCP_HAE is 100 km above the height of its SCP, so that the
\* first ground plane lies below the surface of constant height
MonoMetaLowPlane == [ MonoMeta("L", "RGAZIM", "PFA") EXCEPT !.SCP_HAE = Lit(100) ]

HaeMetas == { MonoMeta("L", "RGAZIM", "PFA"), BiMeta("L", "RGAZIM", "PFA"), MonoMetaLowPlane }

\* elements of a projection set: the set of a grid location, and the same with a
\* range too short to reach the surface
HaeKinds == { [loc |-> l, kind |-> "ok"] : l \in GridLocs }
            \cup { [loc |-> <<0, 0>>, kind |-> "short"] }

\* the projection set ps with the range of the short elements replaced
HaeSetsOf(meta, ps, elems) ==
    IF is_monostatic(meta)
    THEN [ ps EXCEPT !.R_COA = Arr([i \in DOMAIN elems |->
                         IF elems[i].kind = "short" THEN Lit(5000) ELSE ps.R_COA[i]]) ]
    ELSE [ ps EXCEPT !.R_Avg_COA = Arr([i \in DOMAIN elems |->
                         IF elems[i].kind = "short" THEN Lit(5000) ELSE ps.R_Avg_COA[i]]) ]

HaeSets(meta, elems) ==
    HaeSetsOf(meta, compute_projection_sets(meta, Arr([i \in DOMAIN elems |-> elems[i].loc])).ps,
              elems)

\* the surface heights of the calls
Heights == { 0, Lit(100) }

CallHae ==
    \E meta \in HaeMetas, elems \in Batches(HaeKinds), h \in Heights, nlim \in 0..MaxIter :
        \E projection_sets \in {HaeSets(meta, elems)},
           hae0 \in {Arr([i \in DOMAIN elems |-> h])},
           bistat_maxiter \in (IF is_monostatic(meta) THEN {MaxIter} ELSE {1, MaxIter}) :
            \E f \in {hae_setup(meta, projection_sets, hae0)} :
                Enter("r_rdot_to_constant_hae_surface",
                      [meta |-> meta, projection_sets |-> projection_sets, hae0 |-> hae0,
                       delta_hae_max |-> Lit(5), nlim |-> nlim,
                       bistat_delta_gp_gpp |-> Lit(10), bistat_maxiter |-> bistat_maxiter],
                      f, nlim, HaeReturn(meta, projection_sets, hae0, f))

HaeIterate ==
    /\ pc = "loop"
    /\ op = "r_rdot_to_constant_hae_surface"
    /\ \E f \in {hae_body(args.meta, args.projection_sets, args.hae0, args.delta_hae_max,
                           args.bistat_delta_gp_gpp, args.bistat_maxiter, frame)} :
           Pass(f, args.nlim, HaeReturn(args.meta, args.projection_sets, args.hae0, f))

\* ---- SicdNitfWriter ----
\* the file argument of a reader or writer: a path, which the constructor
\* opens at offset 0, or an open file object at its current offset
FileArgs == { [kind |-> "path", offset |-> 0],
              [kind |-> "object", offset |-> 0],
              [kind |-> "object", offset |-> 4] }

\* The largest number of segments a plan is followed to.
MaxSegments == 12

\* (NumRows, NumCols) of the SICD metadata: small images, images on both sides
\* of the ILOC row limit, images on both sides of the segment size limit (with
\* 2 bytes per pixel 20959 * 238561 * 2 = 10^10 - 2), images of several
\* segments, and images whose rows are larger than a segment
WriterImages == { <<1, 1>>, <<3, 2>>, <<99999, 1>>, <<100000, 1>>,
                  <<20959, 238561>>, <<20960, 238561>>,
                  <<1000000, 12500>>, <<250000, 50000>>, <<40000, 125000>>,
                  <<3, 1250000000>>, <<2, 2000000000>> }

\* the locals of the constructor at the start of the while loop
plan_locals(cols, pixel_type) ==
    [ image_segment_limits |-> <<>>, row_offset |-> 0,
      num_rows_limit |-> num_rows_limit(cols, pixel_type) ]

\* the writer is constructed on file for a plan with the given ImageData
CallSicdNitfWriter ==
    \E file \in FileArgs, image \in WriterImages, pixel_type \in PixelTypes :
        /\ pc = "idle"
        /\ op' = "SicdNitfWriter"
        /\ args' = [file |-> file, rows |-> image[1], cols |-> image[2], pixel_type |-> pixel_type]
        /\ mem' = args'
        /\ IF file.offset # 0
           THEN frame' = <<>> /\ pc' = "raised" /\ ret' = [err |-> "RuntimeError"]
           ELSE IF BigLe(product_size(image[1], image[2], pixel_type), is_size_max)
           THEN /\ frame' = [ plan_locals(image[2], pixel_type) EXCEPT
                                !.image_segment_limits = << <<0, image[1], 0, image[2]>> >> ]
                /\ pc' = "done"
                /\ ret' = [err |-> "none",
                           image_segment_limits |-> << <<0, image[1], 0, image[2]>> >>]
           ELSE /\ frame' = plan_locals(image[2], pixel_type)
                /\ pc' = "plan"
                /\ ret' = <<>>

\* one pass of the while loop of the constructor; the loop is left when
\* row_offset reaches rows, and the constructor then returns
PlanSegment ==
    /\ pc = "plan"
    /\ op = "SicdNitfWriter"
    /\ Len(frame.image_segment_limits) < MaxSegments
    /\ frame' = plan_pass(args.rows, args.cols, frame)
    /\ UNCHANGED <<op, args, mem>>
    /\ IF frame'.row_offset < args.rows
       THEN pc' = "plan" /\ ret' = <<>>
       ELSE pc' = "done" /\ ret' = [err |-> "none", image_segment_limits |-> frame'.image_segment_limits]

\* ---- SicdNitfWriter.write_image ----
\* dtypes of the array argument: those of the three pixel types and one other
ArrayDtypes == { PixelDtype(t) : t \in PixelTypes } \cup { "float32" }

\* (rows, cols) of 2-D arrays and of SICD images
ArrayShapes == (1..3) \X (1..3)
SicdShapes == { <<2, 3>>, <<3, 3>> }

\* start arguments: omitted, integer pairs inside and outside the image, and
\* pairs of floats (whole and fractional)
StartArgs == { StartNone }
             \cup { [kind |-> "int", at |-> at] : at \in (-1..2) \X (-1..2) }
             \cup { [kind |-> "float", at |-> <<0, 0>>], [kind |-> "float", at |-> <<1, 0>>] }

CallWriteImage ==
    \E pixel_type \in PixelTypes, sicd_shape \in SicdShapes, dtype \in ArrayDtypes,
       shape \in ArrayShapes, start \in StartArgs :
        \E r \in {write_image(pixel_type, sicd_shape, [dtype |-> dtype, shape |-> shape], start)} :
            FinishWith("write_image",
                       [pixel_type |-> pixel_type, sicd_shape |-> sicd_shape,
                        array |-> [dtype |-> dtype, shape |-> shape], start |-> start],
                       [nitf_writes |-> r.nitf_writes],
                       [err |-> r.err])

\* ---- read_sicd_xml ----
\* files: SICD XML and SICD NITF files of two documents, and a NITF without a
\* SICD data extension segment
FileContents == { [format |-> f, xml |-> x] : f \in {"sicd_xml", "sicd_nitf"}, x \in {"sicd_a", "sicd_b"} }
                \cup { [format |-> "other_nitf", xml |-> "none"] }

CallReadSicdXml ==
    \E file \in FileArgs, content \in FileContents :
        \E parsed \in xml_parse_outcomes(file, content) :
            FinishWith("read_sicd_xml", [file |-> file, content |-> content],
                       [position |-> parsed.position],
                       read_sicd_xml(file, content, parsed))

Next ==
    \/ CallComputeCoaRRdot
    \/ CallComputeProjectionSets
    \/ CallComputeCoaPosVel
    \/ CallComputePtRRdotParameters
    \/ CallComputeScpCoaSlantPlaneNormal
    \/ CallComputeGpXyParameters
    \/ CallImageGridToImagePlanePoint
    \/ CallImagePlanePointToImageGrid
    \/ CallMono
    \/ CallBi
    \/ BiIterate
    \/ CallS2I
    \/ S2IIterate
    \/ CallHae
    \/ HaeIterate
    \/ CallSicdNitfWriter
    \/ PlanSegment
    \/ CallWriteImage
    \/ CallReadSicdXml

Spec == Init /\ [][Next]_vars

\* a pass of the loop of the running solver
LoopPass == pc = "loop" /\ frame'.iter = frame.iter + 1

\* A call that is inside its loop runs its next pass: the interpreter executes
\* the call to its end. This is weak fairness of the three pass actions,
\* WF_vars(BiIterate \/ S2IIterate \/ HaeIterate), with the enabling condition
\* of the passes written out: a pass is enabled exactly when pc = "loop", and the
\* steps of the three actions are the LoopPass steps.
FairSpec == Spec /\ ([]<>(pc # "loop") \/ []<><<LoopPass>>_vars)

\* ------------------------------------------------------------------------
\* Properties
\* ------------------------------------------------------------------------
Returned == pc = "done"
Raised == pc = "raised"
Ended == Returned \/ Raised

\* the one (Grid_Type, IFA) pair with an R/Rdot implementation
Supported(meta) == meta.Grid_Type = "RGAZIM" /\ meta.IFA = "PFA"

\* what the dispatching calls do on a supported and on an unsupported pair
DispatchOnlyRgazimPfa ==
    /\ (op = "compute_coa_r_rdot" /\ Ended) =>
          IF Supported(args.meta)
          THEN Returned /\ DOMAIN ret = {"err", "r", "rdot"}
               /\ DOMAIN ret.r = DOMAIN args.image_grid_locations
               /\ DOMAIN ret.rdot = DOMAIN args.image_grid_locations
          ELSE Raised /\ DOMAIN ret = {"err"}
    /\ (op = "compute_projection_sets" /\ Ended) =>
          IF Supported(args.meta)
          THEN Returned /\ DOMAIN ret = {"err", "ps"}
          ELSE Raised /\ DOMAIN ret = {"err"}

\* C1 (as stated): compute_coa_r_rdot returns an (r, rdot) result only for
\* Grid_Type = RGAZIM with IFA = PFA; for every other pair the call ends in an
\* error and returns nothing, and the same holds for compute_projection_sets
\* and for every scene_to_image call.
C1_AsStated ==
    /\ DispatchOnlyRgazimPfa
    /\ (op = "scene_to_image" /\ ~Supported(args.meta)) =>
          /\ ~Returned
          /\ Raised => DOMAIN ret = {"err"}

\* C1 (amended): compute_coa_r_rdot returns an (r, rdot) result only for
\* Grid_Type = RGAZIM with IFA = PFA; for every other pair the call ends in an
\* error and returns nothing; the same holds for compute_projection_sets, and
\* for scene_to_image whenever maxiter >= 1, where the first pass of the loop
\* raises. With maxiter = 0 the loop body never runs and scene_to_image returns
\* its initial arrays whatever the pair is.
C1_UnsupportedPairsRaise ==
    /\ DispatchOnlyRgazimPfa
    /\ (op = "scene_to_image" /\ ~Supported(args.meta) /\ args.maxiter >= 1) =>
          /\ ~Returned
          /\ frame.iter <= 1
          /\ frame.iter = 1 => Raised
          /\ Raised => DOMAIN ret = {"err"}
    /\ (op = "scene_to_image" /\ ~Supported(args.meta) /\ args.maxiter = 0) =>
          /\ Returned
          /\ \A i \in DOMAIN args.scene_points :
                ret.image_grid_locations[i] = NaN2 /\ IsNaN(ret.delta_gp[i])
          /\ ret.success = FALSE

\* scene_to_image raised in its first pass on a PLANE grid
C1_Witness ==
    /\ op = "scene_to_image" /\ Raised
    /\ args.meta.Grid_Type = "PLANE" /\ args.maxiter >= 1 /\ frame.iter = 1

\* C2: for every unsupported pair compute_coa_r_rdot ends in one and the same
\* error kind, the one the stubs raise in their bodies (NotImplementedError),
\* both for the pairs that select a stub and for the pairs that select nothing.
C2_OneUnsupportedGridError ==
    (op = "compute_coa_r_rdot" /\ Raised) => ret.err = "NotImplementedError"

\* C3: for a non-empty batch and maxiter >= 1, scene_to_image returns
\* success = true exactly when every returned delta_gp is <= delta_gp_s2i and
\* every element's most recent R/Rdot-to-ground projection succeeded (a finite
\* point for monostatic, a converged inner solver for bistatic); success = true
\* implies that no returned delta_gp is NaN or above the threshold.
C3_S2ISuccessExactly ==
    (op = "scene_to_image" /\ Returned /\ args.maxiter >= 1) =>
        LET I == DOMAIN args.scene_points
            projected(k) == IF is_monostatic(args.meta) THEN VFinite(frame.p[k])
                            ELSE frame.r_rdot_to_ground_success[k]
        IN /\ I # {}
           /\ ret.success <=> ( (\A i \in I : Le(ret.delta_gp[i], args.delta_gp_s2i))
                               /\ (\A i \in I : projected(i)) )
           /\ ret.success => \A i \in I : /\ ~IsNaN(ret.delta_gp[i])
                                           /\ ~Gt(ret.delta_gp[i], args.delta_gp_s2i)

\* scene_to_image returned success = true for two scene points after two passes
C3_Witness ==
    /\ op = "scene_to_image" /\ Returned /\ ret.success
    /\ frame.iter >= 2
    /\ Cardinality(DOMAIN args.scene_points) >= 2

\* C4: when monostatic scene_to_image returns success = true, the returned
\* image grid location and the returned delta_gp of every element belong to the
\* same iteration: the projection set of the returned location, projected by
\* r_rdot_to_ground_plane_mono onto the plane through S with normal S/|S|, is
\* a point at distance delta_gp from S, and delta_gp <= delta_gp_s2i.
C4_S2ILocationAndDeltaAgree ==
    (op = "scene_to_image" /\ Returned /\ is_monostatic(args.meta) /\ ret.success) =>
        LET S == args.scene_points
            I == DOMAIN S
            sets == compute_projection_sets(args.meta, ret.image_grid_locations).ps
            normals == Arr([i \in I |-> Unit(S[i])])
            q == r_rdot_to_ground_plane_mono(args.meta, sets, S, normals)
        IN \A i \in I : /\ Norm(VSub(S[i], q[i])) = ret.delta_gp[i]
                         /\ Le(ret.delta_gp[i], args.delta_gp_s2i)

\* monostatic scene_to_image returned success = true with an element frozen in
\* the first pass and an element frozen in the second, off the SCP
C4_Witness ==
    /\ op = "scene_to_image" /\ Returned /\ ret.success
    /\ is_monostatic(args.meta) /\ frame.iter = 2
    /\ \E i, j \in DOMAIN args.scene_points :
          /\ args.scene_points[i] = SCP0
          /\ args.scene_points[j] # SCP0
          /\ Gt(ret.delta_gp[j], 0)

\* C5: for every element of a scene_to_image batch whose R/Rdot-to-ground
\* projection has no solution (its projected point is NaN), the returned image
\* grid coordinates are NaN, as its returned delta_gp is.
C5_NoSolutionLocationIsNaN ==
    (op = "scene_to_image" /\ Returned /\ frame.iter >= 1) =>
        \A i \in DOMAIN args.scene_points :
            AllNaN(frame.p[i]) => /\ IsNaN(ret.delta_gp[i])
                                  /\ ret.image_grid_locations[i] = NaN2

\* C6: r_rdot_to_ground_plane_bi returns success = true if and only if at the
\* end of some pass k, 1 <= k <= maxiter, every delta_gp is <= delta_gp_gpp (the
\* loop is left at the first such pass, so it is the last one run); otherwise,
\* maxiter = 0 included, it returns success = false; in both cases it returns
\* the current g and delta_gp.
C6_BiSuccessIffAllConverged ==
    /\ (op = "r_rdot_to_ground_plane_bi" /\ Returned) =>
          LET all_converged == \A i \in DOMAIN frame.delta_gp :
                                   Le(frame.delta_gp[i], args.delta_gp_gpp)
          IN /\ ret.success <=> (frame.iter \in 1..args.maxiter /\ all_converged)
             /\ ret.g = frame.g
             /\ ret.delta_gp = frame.delta_gp
             /\ args.maxiter = 0 => ~ret.success
    /\ (op = "r_rdot_to_ground_plane_bi" /\ pc = "loop" /\ frame.iter >= 1) =>
          \E i \in DOMAIN frame.delta_gp : ~Le(frame.delta_gp[i], args.delta_gp_gpp)

\* r_rdot_to_ground_plane_bi returned success = true after more than one pass
\* on a batch of two, one of which had converged in the first pass
C6_Witness ==
    /\ op = "r_rdot_to_ground_plane_bi" /\ Returned /\ ret.success
    /\ frame.iter >= 2
    /\ Cardinality(DOMAIN ret.delta_gp) >= 2

\* the iterative solvers, with the threshold, the iteration bound, the
\* displacement array and the point estimates of the running one
Solvers == {"r_rdot_to_ground_plane_bi", "scene_to_image", "r_rdot_to_constant_hae_surface"}
InSolver == op \in Solvers
Threshold == CASE op = "r_rdot_to_ground_plane_bi" -> args.delta_gp_gpp
               [] op = "scene_to_image" -> args.delta_gp_s2i
               [] op = "r_rdot_to_constant_hae_surface" -> args.delta_hae_max
IterBound == IF op = "r_rdot_to_constant_hae_surface" THEN args.nlim ELSE args.maxiter
Displacement(f) == IF op = "r_rdot_to_constant_hae_surface" THEN f.delta_hae ELSE f.delta_gp
Estimates(f) == CASE op = "r_rdot_to_ground_plane_bi" -> <<f.g>>
                  [] op = "scene_to_image" -> <<f.g, f.p, f.image_grid_locations>>
                  [] op = "r_rdot_to_constant_hae_surface" -> <<f.gpp, f.gref, f.u_gpn, f.u_up>>
EstimatesAt(f, i) == [k \in DOMAIN Estimates(f) |-> Estimates(f)[k][i]]

\* C7: in each of the three iterative solvers, an element whose displacement
\* is <= the threshold at the end of a pass is outside the above-threshold mask
\* and stays outside it, and a pass changes the point estimate, the displacement
\* and (in scene_to_image) the image grid location of no element outside the
\* mask.
C7_FrozenElementsKeepTheirValues ==
    [][ (InSolver /\ pc = "loop") =>
          \A i \in DOMAIN frame.above_threshold :
              /\ Le(Displacement(frame)[i], Threshold) =>
                    ~frame.above_threshold[i] /\ ~frame'.above_threshold[i]
              /\ ~frame.above_threshold[i] =>
                    /\ EstimatesAt(frame', i) = EstimatesAt(frame, i)
                    /\ Displacement(frame')[i] = Displacement(frame)[i]
                    /\ ~frame'.above_threshold[i] ]_vars

\* a solver is about to run its third pass or a later one with an element that
\* converged and an element that is still above the threshold
C7_Witness ==
    /\ InSolver /\ pc = "loop" /\ frame.iter >= 2
    /\ \E i, j \in DOMAIN frame.above_threshold :
          /\ Le(Displacement(frame)[i], Threshold) /\ ~frame.above_threshold[i]
          /\ frame.above_threshold[j]

\* what holds of the loop of a solver in every state
LoopIsBounded ==
    InSolver =>
        /\ frame.iter <= IterBound
        /\ pc = "loop" => (~frame.success /\ frame.iter < IterBound /\ frame.err = "none")
        /\ Raised => (frame.err # "none" /\ ~frame.success)
        /\ Returned =>
              /\ frame.err = "none"
              /\ frame.success \/ frame.iter = IterBound
              /\ ret.success = frame.success
              /\ Displacement(ret) = Displacement(frame)
        /\ (frame.err = "none" /\ ~frame.success /\ frame.iter = IterBound) =>
              Returned /\ ret.success = FALSE

MonoPointIs(look, r_coa, e, gpp) ==
    LET cos_az == e.cos_az_all
        sin_az == Mul(look, Sqrt(Sub(ONE, Mul(cos_az, cos_az))))
    IN IF \/ Gt(Abs(e.arpz_all), r_coa)
          \/ e.vx_all = 0
          \/ Lt(cos_az, -ONE) \/ Gt(cos_az, ONE)
       THEN AllNaN(gpp)
       ELSE gpp = VAdd(VAdd(e.agpn, VScale(Mul(e.g, cos_az), e.ux)),
                       VScale(Mul(e.g, sin_az), e.uy))

OutOfReach ==
    LET ps == args.projection_sets
        uz == calc_up(args.meta.SCP_LatLon)
        gref1(i) == VAdd(args.meta.SCP, VScale(Sub(args.hae0[i], args.meta.SCP_HAE), uz))
    IN { i \in DOMAIN args.hae0 :
           Lt(ps.R_COA[i], Abs(Dot(VSub(ps.ARP_COA[i], gref1(i)), uz))) }

C12_BistaticTimesPerElement ==
    (op = "compute_coa_pos_vel" /\ Returned /\ ~is_monostatic(args.meta)) =>
        \A i \in DOMAIN args.t_coa :
            \A alone \in {compute_coa_pos_vel(args.meta, Arr([j \in {1} |-> args.t_coa[i]]))} :
                \A k \in DOMAIN ret.coa : ret.coa[k][i] = alone[k][1]

\* the grid axes of a collection are unit vectors (the squares of the
\* components sum to exactly 1) and not collinear
IsUnit(v) == v[1] * v[1] + v[2] * v[2] + v[3] * v[3] = ONE * ONE
UnitNonCollinearAxes(meta) ==
    /\ IsUnit(meta.uRow) /\ IsUnit(meta.uCol)
    /\ Lt(Abs(Dot(meta.uRow, meta.uCol)), ONE)

\* two grid locations that differ by the rounding of the arithmetic at most
RoundTripTol == 2
SameGridLocation(a, b) ==
    /\ IsFinite(a[1]) /\ IsFinite(a[2])
    /\ IAbs(a[1] - b[1]) <= RoundTripTol /\ IAbs(a[2] - b[2]) <= RoundTripTol

\* C13: for unit, non-collinear uRow and uCol and any image grid location L,
\* image_plane_point_to_image_grid(image_grid_to_image_plane_point(L)) is L (to
\* the rounding of the arithmetic), and image_grid_to_image_plane_point at
\* L = (0, 0) returns SCP exactly.
C13_GridRoundTrip ==
    (op = "image_grid_to_image_plane_point" /\ Ended) =>
        /\ Returned
        /\ \A i \in DOMAIN args.image_grid_locations :
              args.image_grid_locations[i] = <<0, 0>> => ret.ipp[i] = args.meta.SCP
        /\ UnitNonCollinearAxes(args.meta) =>
              \A back \in {image_plane_point_to_image_grid(args.meta, ret.ipp)} :
                  \A i \in DOMAIN args.image_grid_locations :
                      SameGridLocation(back[i], args.image_grid_locations[i])

\* image_grid_to_image_plane_point returned the points of a batch with the
\* location (0, 0) and another location, for axes that are not orthogonal
C13_Witness ==
    /\ op = "image_grid_to_image_plane_point" /\ Returned
    /\ UnitNonCollinearAxes(args.meta)
    /\ Dot(args.meta.uRow, args.meta.uCol) # 0
    /\ \E i, j \in DOMAIN args.image_grid_locations :
          /\ args.image_grid_locations[i] = <<0, 0>>
          /\ args.image_grid_locations[j][1] # 0 /\ args.image_grid_locations[j][2] # 0
          /\ ret.ipp[j] # args.meta.SCP

\* uRow and uCol are collinear: the sine of the angle between them is 0
CollinearAxes(meta) ==
    Sqrt(Sub(ONE, Mul(Dot(meta.uRow, meta.uCol), Dot(meta.uRow, meta.uCol)))) = 0

BpParallelToGpn(i) == Cross(args.bp_points[i], args.ugpn[i]) = <<0, 0, 0>>

\* bPDot . uGY of element i is 0
BpDotPerpendicularToGY(i) ==
    Dot(args.bpdot_points[i],
        gp_xy_1(args.scene_points[i], args.ugpn[i], args.bp_points[i], args.bpdot_points[i]).uGY) = 0

Mat2AllNaN(m) == IsNaN(m[1][1]) /\ IsNaN(m[1][2]) /\ IsNaN(m[2][1]) /\ IsNaN(m[2][2])
Mat2Finite(m) == IsFinite(m[1][1]) /\ IsFinite(m[1][2]) /\ IsFinite(m[2][1]) /\ IsFinite(m[2][2])

\* C16 (as stated): compute_gp_xy_parameters fails with a singular-matrix
\* error, instead of returning M_GPXY_RRdot, whenever the determinant of
\* M_RRdot_GPXY is zero for any element - both when bPDot . uGY = 0 and when
\* bP . uGX = 0 (bP parallel to uGPN).
C16_AsStated ==
    (op = "compute_gp_xy_parameters" /\ Ended) =>
        ( (\E i \in DOMAIN args.scene_points : BpDotPerpendicularToGY(i) \/ BpParallelToGpn(i))
            => Raised /\ DOMAIN ret = {"err"} )

\* C16 (amended): compute_gp_xy_parameters fails with a singular-matrix error,
\* instead of returning M_GPXY_RRdot, exactly when bPDot . uGY = 0 for some
\* element. For an element with bP parallel to uGPN the vector gx is 0, uGX and
\* uGY are NaN and the matrix has no zero pivot: no error is raised for it, and
\* the call returns matrices M_RRdot_GPXY and M_GPXY_RRdot that are NaN for that
\* element and finite for the other elements.
C16_SingularOnlyOnZeroPivot ==
    (op = "compute_gp_xy_parameters" /\ Ended) =>
        LET I == DOMAIN args.scene_points
        IN /\ Raised <=> \E i \in I : BpDotPerpendicularToGY(i)
           /\ Raised => ret = [err |-> "LinAlgError"]
           /\ Returned =>
                 \A i \in I : IF BpParallelToGpn(i)
                               THEN /\ AllNaN(ret.uGX[i]) /\ AllNaN(ret.uGY[i])
                                    /\ Mat2AllNaN(ret.M_GPXY_RRdot[i])
                               ELSE /\ VFinite(ret.uGX[i]) /\ VFinite(ret.uGY[i])
                                    /\ Mat2Finite(ret.M_GPXY_RRdot[i])

\* compute_gp_xy_parameters returned for a batch of an element with bP parallel
\* to uGPN and an element with a solution
C16_Witness ==
    /\ op = "compute_gp_xy_parameters" /\ Returned
    /\ \E i, j \in DOMAIN args.scene_points :
          /\ BpParallelToGpn(i) /\ Mat2AllNaN(ret.M_GPXY_RRdot[i])
          /\ ~BpParallelToGpn(j) /\ Mat2Finite(ret.M_GPXY_RRdot[j])

\* the collection with the other side of track, everything else unchanged
FlipSide(meta) == [meta EXCEPT !.SideOfTrack = IF @ = "L" THEN "R" ELSE "L"]
VNeg(v) == <<Neg(v[1]), Neg(v[2]), Neg(v[3])>>
\* the sign of L is +1 and the sign of R is -1
SideSign(meta) == IF meta.SideOfTrack = "L" THEN ONE ELSE -ONE
\* the COA positions and velocities of a bistatic projection set
ApcsOf(ps) == [ Xmt_COA |-> ps.Xmt_COA, VXmt_COA |-> ps.VXmt_COA,
                Rcv_COA |-> ps.Rcv_COA, VRcv_COA |-> ps.VRcv_COA ]

\* C17: flipping SideOfTrack between L and R, with all other metadata
\* unchanged, exactly negates compute_scp_coa_slant_plane_normal for monostatic
\* and for bistatic collections; and the look sign is +1 for L and -1 for R at
\* each site: the SCP slant plane normal, the scene point slant plane normal
\* (uSPN_PT), the monostatic sin_az, and the slant plane normal of the constant
\* HAE projection.
C17_SideOfTrackAntisymmetry ==
    /\ (op = "compute_scp_coa_slant_plane_normal" /\ Ended) =>
          /\ Returned
          /\ ret.spn = VNeg(compute_scp_coa_slant_plane_normal(FlipSide(args.meta)))
          /\ is_monostatic(args.meta) =>
                ret.spn = Unit(VScale(SideSign(args.meta),
                                      Cross(VSub(args.meta.ARP_SCP_COA, args.meta.SCP),
                                            args.meta.VARP_SCP_COA)))
          /\ ~is_monostatic(args.meta) =>
                \A b \in {scp_r_rdot_projection_contour_bistatic(args.meta)} :
                    ret.spn = Unit(VScale(SideSign(args.meta),
                                          Cross(b.bp_scp_coa, b.bpdot_scp_coa)))
    /\ (op = "r_rdot_to_ground_plane_mono" /\ Returned) =>
          \A i \in DOMAIN args.gref :
              \A e \in {mono_1(LookOf(args.meta), args.projection_sets.ARP_COA[i],
                                args.projection_sets.VARP_COA[i], args.projection_sets.R_COA[i],
                                args.projection_sets.Rdot_COA[i], args.gref[i], args.ugpn[i])} :
                  e.sin_az = Mul(SideSign(args.meta), Sqrt(Sub(ONE, Mul(e.cos_az, e.cos_az))))
    /\ (op = "r_rdot_to_ground_plane_bi" /\ Returned) =>
          \A p \in {compute_pt_r_rdot_parameters(args.meta, ApcsOf(args.projection_sets), ret.g)},
             q \in {compute_pt_r_rdot_parameters(FlipSide(args.meta), ApcsOf(args.projection_sets), ret.g)} :
              \A i \in DOMAIN ret.g :
                  /\ q.uSPN_PT[i] = VNeg(p.uSPN_PT[i])
                  /\ Dot(p.uSPN_PT[i], VScale(SideSign(args.meta), Cross(p.bP_PT[i], p.bPDot_PT[i]))) >= 0
    /\ (op = "r_rdot_to_constant_hae_surface" /\ Returned) =>
          \A u \in {hae_u_spn(args.meta, args.projection_sets, frame.gpp)},
             v \in {hae_u_spn(FlipSide(args.meta), args.projection_sets, frame.gpp)} :
              \A i \in DOMAIN args.hae0 :
                  /\ v[i] = VNeg(u[i])
                  /\ is_monostatic(args.meta) =>
                        u[i] = Unit(VScale(SideSign(args.meta),
                                           Cross(args.projection_sets.VARP_COA[i],
                                                 VSub(frame.gpp[i], args.projection_sets.ARP_COA[i]))))

\* compute_scp_coa_slant_plane_normal returned a finite normal, not the zero
\* vector, for a right-looking bistatic collection
C17_Witness ==
    /\ op = "compute_scp_coa_slant_plane_normal" /\ Returned
    /\ args.meta.SideOfTrack = "R" /\ ~is_monostatic(args.meta)
    /\ VFinite(ret.spn) /\ ret.spn # <<0, 0, 0>>
    /\ ret.spn # VNeg(ret.spn)

\* C18: for Grid_Type = RGAZIM and IFA = PFA, at the grid location
\* (rg, az) = (0, 0) the increments delta_r and delta_rdot are exactly 0 whatever
\* cPA, cKSF and t_COA are, so r_rdot_from_rgazim_pfa returns r = r_SCP and
\* rdot = rdot_SCP, the range and range rate of SCP relative to the COA
\* positions and velocities of the location.
C18_ScpLocationGivesScpRRdot ==
    (op = "compute_coa_r_rdot" /\ Returned) =>
        \A coa \in {compute_coa_pos_vel(args.meta,
                                          compute_coa_time(args.meta, args.image_grid_locations))} :
            \A i \in DOMAIN args.image_grid_locations :
                args.image_grid_locations[i] = <<0, 0>> =>
                    IF is_monostatic(args.meta)
                    THEN /\ ret.r[i] = Norm(VSub(coa.ARP_COA[i], args.meta.SCP))
                         /\ ret.rdot[i] = Div(Dot(coa.VARP_COA[i], VSub(coa.ARP_COA[i], args.meta.SCP)),
                                              Norm(VSub(coa.ARP_COA[i], args.meta.SCP)))
                    ELSE \A x \in {pt_apc(coa.Xmt_COA[i], coa.VXmt_COA[i], args.meta.SCP)},
                            y \in {pt_apc(coa.Rcv_COA[i], coa.VRcv_COA[i], args.meta.SCP)} :
                             /\ ret.r[i] = Div(Add(x.r, y.r), 2 * ONE)
                             /\ ret.rdot[i] = Div(Add(x.rdot, y.rdot), 2 * ONE)

\* compute_coa_r_rdot returned for a batch with the location (0, 0) and another
\* location with a different range, for a polar angle that is not 0 at the COA
\* time of the SCP and a scale factor that varies with the angle
C18_Witness ==
    /\ op = "compute_coa_r_rdot" /\ Returned
    /\ args.meta.cPA[1] # 0 /\ Len(args.meta.cKSF) >= 2
    /\ \E i, j \in DOMAIN args.image_grid_locations :
          /\ args.image_grid_locations[i] = <<0, 0>>
          /\ args.image_grid_locations[j] # <<0, 0>>
          /\ IsFinite(ret.r[i]) /\ IsFinite(ret.r[j]) /\ ret.r[i] # ret.r[j]

\* the fields of params.ProjectionSets and params.CoaPosVels of each collect type
MonoSetsFields == {"t_COA", "ARP_COA", "VARP_COA", "R_COA", "Rdot_COA"}
BiSetsFields == {"t_COA", "tx_COA", "tr_COA", "Xmt_COA", "VXmt_COA", "Rcv_COA", "VRcv_COA",
                 "R_Avg_COA", "Rdot_Avg_COA"}
MonoCoaFields == {"ARP_COA", "VARP_COA"}
BiCoaFields == {"GRP_COA", "tx_COA", "tr_COA", "Xmt_COA", "VXmt_COA", "Rcv_COA", "VRcv_COA"}

\* the record e has exactly the fields F, each an array over the indices I
PopulatedExactly(e, F, I) == DOMAIN e = F /\ \A k \in F : DOMAIN e[k] = I

\* C19: compute_projection_sets and compute_coa_pos_vel populate exactly the
\* field set of the collect type: for MONOSTATIC only t_COA, ARP_COA, VARP_COA,
\* R_COA, Rdot_COA (ARP_COA, VARP_COA for CoaPosVels) are set and every bistatic
\* field is unset; for BISTATIC only t_COA, tx_COA, tr_COA, Xmt_COA, VXmt_COA,
\* Rcv_COA, VRcv_COA, R_Avg_COA, Rdot_Avg_COA (GRP_COA, tx_COA, tr_COA,
\* Xmt_COA, VXmt_COA, Rcv_COA, VRcv_COA for CoaPosVels) are set and every
\* monostatic field is unset.
C19_FieldsOfTheCollectType ==
    /\ (op = "compute_projection_sets" /\ Returned) =>
          /\ PopulatedExactly(ret.ps,
                              IF is_monostatic(args.meta) THEN MonoSetsFields ELSE BiSetsFields,
                              DOMAIN args.image_grid_locations)
          /\ is_monostatic(args.meta) => DOMAIN ret.ps \cap (BiSetsFields \ {"t_COA"}) = {}
          /\ ~is_monostatic(args.meta) => DOMAIN ret.ps \cap (MonoSetsFields \ {"t_COA"}) = {}
    /\ (op = "compute_coa_pos_vel" /\ Returned) =>
          /\ PopulatedExactly(ret.coa,
                              IF is_monostatic(args.meta) THEN MonoCoaFields ELSE BiCoaFields,
                              DOMAIN args.t_coa)
          /\ is_monostatic(args.meta) => DOMAIN ret.coa \cap BiCoaFields = {}
          /\ ~is_monostatic(args.meta) => DOMAIN ret.coa \cap MonoCoaFields = {}

\* compute_projection_sets returned the projection sets of a batch of two
\* locations for a bistatic collection
C19_Witness ==
    /\ op = "compute_projection_sets" /\ Returned
    /\ ~is_monostatic(args.meta)
    /\ Cardinality(DOMAIN args.image_grid_locations) >= 2
    /\ "R_Avg_COA" \in DOMAIN ret.ps

\* the projection operations
ProjectionOps == {"r_rdot_to_ground_plane_mono", "r_rdot_to_ground_plane_bi", "scene_to_image",
                  "r_rdot_to_constant_hae_surface"}

C21_AsStated ==
    (op = "scene_to_image" /\ Returned /\ args.delta_gp_s2i = 0 /\ ret.success) =>
        frame.iter = 1

\* C21 (amended): with delta_gp_s2i = 0, scene_to_image returns success = true
\* exactly when, at the end of the last pass it ran (the first or a later one),
\* the delta_gp of every element is exactly 0 and every element's most recent
\* R/Rdot-to-ground projection succeeded; the flag is computed anew at the end
\* of every pass, so an exact solution reached in a later pass gives success =
\* true.
C21_ExactSolutionAtAnyPass ==
    (op = "scene_to_image" /\ Returned /\ args.delta_gp_s2i = 0) =>
        /\ ret.success <=>
              /\ frame.iter >= 1
              /\ \A i \in DOMAIN args.scene_points :
                    /\ ret.delta_gp[i] = 0
                    /\ frame.r_rdot_to_ground_success[i]
        /\ ret.success => frame.iter \in 1..args.maxiter

\* scene_to_image with delta_gp_s2i = 0 returned success = true after a second
\* pass: an element had a delta_gp above 0 after the first pass and has the
\* delta_gp 0 now
C21_Witness ==
    /\ op = "scene_to_image" /\ Returned /\ args.delta_gp_s2i = 0
    /\ ret.success /\ frame.iter >= 2
    /\ \A i \in DOMAIN ret.delta_gp : ret.delta_gp[i] = 0

\* C24 (as stated): in each iterative solver, the set of elements carried into
\* the next iteration is exactly the set of elements that have not converged:
\* an element is frozen if and only if its displacement is <= the threshold, so
\* an element whose displacement is NaN (no solution) or otherwise not <= the
\* threshold keeps being recomputed until the iteration bound.
C24_AsStated ==
    (InSolver /\ frame.iter >= 1 /\ frame.err = "none") =>
        \A i \in DOMAIN frame.above_threshold :
            frame.above_threshold[i] <=> ~Le(Displacement(frame)[i], Threshold)

\* C24 (amended): in each iterative solver, the elements carried into the next
\* iteration are exactly those whose displacement is > the threshold. An
\* element whose displacement is NaN (no solution) is neither converged nor
\* carried: it leaves the mask at the end of the pass that made it NaN, no
\* later pass recomputes its displacement or its point estimate, and the call
\* does not reach success = true.
C24_CarriedIffAboveThreshold ==
    [][ (InSolver /\ pc = "loop" /\ frame'.err = "none") =>
          \A i \in DOMAIN frame'.above_threshold :
              /\ frame'.above_threshold[i] <=> Gt(Displacement(frame')[i], Threshold)
              /\ (frame.iter >= 1 /\ IsNaN(Displacement(frame)[i])) =>
                    /\ ~frame.above_threshold[i]
                    /\ IsNaN(Displacement(frame')[i])
                    /\ EstimatesAt(frame', i) = EstimatesAt(frame, i)
                    /\ ~frame'.success ]_vars

\* a solver ran a second pass or a later one on a batch with an element whose
\* displacement is NaN and that is outside the mask, and an element that every
\* pass recomputed and that is still in the mask
C24_Witness ==
    /\ InSolver /\ frame.iter >= 2 /\ frame.err = "none"
    /\ \E i, j \in DOMAIN frame.above_threshold :
          /\ IsNaN(Displacement(frame)[i]) /\ ~frame.above_threshold[i]
          /\ frame.above_threshold[j]

\* C25: compute_gp_xy_parameters returns M_RRdot_GPXY with first row
\* -(bP.uGX, 0) and second row -(bPDot.uGX, bPDot.uGY): the zero entry is at
\* row 0 / column 1, so that M_RRdot_GPXY applied to (dgx, dgy) gives
\* (dR, dRdot); M_GPXY_RRdot is the inverse of that matrix, the one
\* r_rdot_to_ground_plane_bi multiplies by the column (dR, dRdot).
C25_SensitivityMatrixRows ==
    (op = "compute_gp_xy_parameters" /\ Returned) =>
        \A i \in DOMAIN args.scene_points :
            \A m \in { << << Neg(Dot(args.bp_points[i], ret.uGX[i])), 0 >>,
                          << Neg(Dot(args.bpdot_points[i], ret.uGX[i])),
                             Neg(Dot(args.bpdot_points[i], ret.uGY[i])) >> >> } :
                /\ ret.M_RRdot_GPXY[i] = m
                /\ ret.M_GPXY_RRdot[i] = inv2x2(m)

\* the element i of an ensemble of COA positions and velocities, as a batch of one
CoaElement(coa_pos_vels, i) ==
    [k \in DOMAIN coa_pos_vels |-> Arr([j \in {1} |-> coa_pos_vels[k][i]])]

\* C26: for scene points of any batch shape, compute_pt_r_rdot_parameters
\* returns a uSPN_PT that is a unit vector for every element: each element's
\* look * (bP x bPDot) is divided by that element's own norm, so an element's
\* uSPN_PT in a batch equals the one computed for that element alone.
C26_UspnPerElement ==
    (op = "compute_pt_r_rdot_parameters" /\ Returned) =>
        \A i \in DOMAIN args.scene_points :
            \A alone \in {compute_pt_r_rdot_parameters(args.meta,
                                                       CoaElement(args.coa_pos_vels, i),
                                                       Arr([j \in {1} |-> args.scene_points[i]]))} :
                /\ ret.params.uSPN_PT[i] = alone.uSPN_PT[1]
                /\ ret.params.uSPN_PT[i] = Unit(VScale(LookOf(args.meta),
                                                       Cross(ret.params.bP_PT[i], ret.params.bPDot_PT[i])))

C28_OwnInnerConvergenceGivesSuccess ==
    ( /\ op \in {"scene_to_image", "r_rdot_to_constant_hae_surface"}
      /\ Returned /\ frame.iter >= 1
      /\ ~is_monostatic(args.meta)
      /\ \A i \in DOMAIN frame.inner_delta_gp :
            /\ Le(Displacement(ret)[i], Threshold)
            /\ Le(frame.inner_delta_gp[i], args.bistat_delta_gp_gpp) ) => ret.success

\* ---- image segments of SicdNitfWriter ----
\* the constructor planned its segments for an image whose rows fit a segment
Planned ==
    /\ op = "SicdNitfWriter"
    /\ Returned
    /\ BigLe(bytes_per_row(args.cols, args.pixel_type), is_size_max)

\* the bytes of the segment s
SegmentBytes(s) == BigMul(bytes_per_row(args.cols, args.pixel_type), BigOf(s[2] - s[1]))

\* the segments segs tile the image in ascending row order, over all columns,
\* each within the size limit, and there is one segment exactly when the whole
\* image is within the size limit
TilesImage(segs) ==
    /\ Len(segs) >= 1
    /\ segs[1][1] = 0
    /\ segs[Len(segs)][2] = args.rows
    /\ \A k \in 1..(Len(segs) - 1) : segs[k + 1][1] = segs[k][2]
    /\ \A k \in 1..Len(segs) :
          /\ segs[k][1] < segs[k][2]
          /\ segs[k][3] = 0 /\ segs[k][4] = args.cols
          /\ BigLe(SegmentBytes(segs[k]), is_size_max)
    /\ (segs = << <<0, args.rows, 0, args.cols>> >>)
          <=> BigLe(product_size(args.rows, args.cols, args.pixel_type), is_size_max)

\* C29 as stated: the planned segments tile the image, and every segment has at
\* most 99999 rows.
C29_AsStated ==
    Planned =>
        /\ TilesImage(ret.image_segment_limits)
        /\ \A k \in 1..Len(ret.image_segment_limits) :
              ret.image_segment_limits[k][2] - ret.image_segment_limits[k][1] <= iloc_max

\* C29: for an image whose rows fit a segment, the planned segments are in
\* ascending row order, start at row 0, each start where the previous one stops,
\* end at NumRows, span columns 0..NumCols and hold at most 10^10 - 2 bytes each;
\* a single segment (0, NumRows, 0, NumCols) is planned exactly when the whole
\* image is at most 10^10 - 2 bytes; and every segment has at most 99999 rows
\* when more than one segment is planned (the single segment of an image within
\* the size limit has all NumRows rows, however many).
C29_SegmentsTileImage ==
    Planned =>
        /\ TilesImage(ret.image_segment_limits)
        /\ Len(ret.image_segment_limits) > 1 =>
              \A k \in 1..Len(ret.image_segment_limits) :
                  ret.image_segment_limits[k][2] - ret.image_segment_limits[k][1] <= iloc_max

\* an image of more than one segment, limited by the ILOC row limit, was planned
C29_Witness ==
    /\ Planned
    /\ Len(ret.image_segment_limits) >= 3
    /\ ret.image_segment_limits[1][2] = iloc_max

\* C30: every pass of the segment-planning while loop of SicdNitfWriter
\* strictly increases row_offset (so that the loop ends after at most NumRows
\* passes), for every positive NumRows and NumCols and every pixel type, also
\* when one image row is larger than the 10^10 - 2 byte segment limit.
C30_RowOffsetIncreases ==
    [][ (op = "SicdNitfWriter" /\ pc = "plan") => frame'.row_offset > frame.row_offset ]_vars

\* ---- write_image ----
\* the checks of write_image on the arguments of the call that ended
DtypeDiffers == args.array.dtype # PixelDtype(args.pixel_type)
ShapeDiffersWithoutStart == args.start.kind = "none" /\ args.array.shape # args.sicd_shape
StartNotInteger == args.start.kind = "float"
StartNegative == args.start.kind # "none" /\ \E k \in 1..2 : args.start.at[k] < 0
StartGiven == IF args.start.kind = "none" THEN <<0, 0>> ELSE args.start.at
GoesBeyond == \E k \in 1..2 : StartGiven[k] + args.array.shape[k] > args.sicd_shape[k]

\* C23: write_image of a 2-D array raises ValueError and makes no write on the
\* underlying NITF writer when the array dtype is not that of the PixelType,
\* when start is omitted and the array shape is not (NumRows, NumCols), when
\* start is not of integers or has a negative component, or when
\* start + array.shape is beyond (NumRows, NumCols) in a dimension; otherwise it
\* makes exactly one write, of the array at start, (0, 0) when start is omitted.
C23_WriteImageChecks ==
    (op = "write_image" /\ Ended) =>
        IF \/ DtypeDiffers \/ ShapeDiffersWithoutStart
           \/ StartNotInteger \/ StartNegative \/ GoesBeyond
        THEN ret.err = "ValueError" /\ frame.nitf_writes = <<>>
        ELSE /\ Returned
             /\ frame.nitf_writes = << [array |-> args.array, start_indices |-> StartGiven] >>

\* an array that ends at the last column of the image was written at a start
\* other than (0, 0)
C23_Witness ==
    /\ op = "write_image" /\ Returned
    /\ Len(frame.nitf_writes) = 1
    /\ frame.nitf_writes[1].start_indices = <<1, 2>>
    /\ args.array.shape = <<1, 1>>
    /\ args.sicd_shape = <<3, 3>>

\* C22: read_sicd_xml returns the SICD XML tree of a SICD XML file and of a SICD
\* NITF file, given as a path or as an open file object at offset 0.
C22_ReturnsTreeOfXmlAndNitf ==
    ( /\ op = "read_sicd_xml" /\ Ended
      /\ args.content.format \in {"sicd_xml", "sicd_nitf"}
      /\ args.file.offset = 0 ) =>
        Returned /\ ret.tree = args.content.xml

====
